---------------------------- MODULE Spec2Model ----------------------------
(***************************************************************************)
(* A model of nonnon_py: the article normalisation pipeline                *)
(* (extract.process_article_html and its stages), the browser-backed       *)
(* Twitter-card renderer (playw.ScraperService) and the per-site           *)
(* orchestration (index.run, scraper.scrape_site).                         *)
(*                                                                         *)
(* Text values (attribute values, URLs, text nodes) are sequences of       *)
(* tokens: <<"https:", "//", "cdn.ok.com", "/w.js">> is the string          *)
(* "https://cdn.ok.com/w.js".  A document is a tree of records             *)
(*   [nid, tag, attrs, kids]                                               *)
(* where nid is the identity of the Python object (the handle the code     *)
(* keeps while it mutates the tree), attrs maps the names of the present   *)
(* attributes to their values and a text node has tag "#text" and its      *)
(* text under attrs.text.  An HTML string is represented by the tree       *)
(* BeautifulSoup(html, "html.parser") builds from it.                      *)
(***************************************************************************)
EXTENDS Integers, Sequences, FiniteSets, TLC

(***************************************************************************)
(* Strings                                                                 *)
(***************************************************************************)

\* Python's None, as the result of tag.get(attr), urlparse(..).hostname, ...
None == <<"<None>">>

WS == " "

Schemes == {"http:", "https:", "javascript:", "data:"}

\* schemes urllib joins relative references against (urllib.parse.uses_relative)
UsesRelative == {"http:", "https:"}

NetlocToks == {"blog.jp", "platform.twitter.com", "cdn.ok.com", "CDN.OK.COM",
               "evil.com", "[bad", "imgur.com", "i.imgur.com", "twitter.com"}

\* query strings; those of QueryMediaToks carry a media URL as a parameter value
QueryMediaToks == {"?u=http://cdn.ok.com/i.jpg"}

QueryToks == {"?p=2", "?v=1"} \cup QueryMediaToks

FragToks == {"#top"}

\* the last path segment of the k-th page of an article, written without a
\* leading slash (as a relative reference) and with one (inside a path)
PageRel(k) ==
  CASE k = 1 -> "p1" [] k = 2 -> "p2" [] k = 3 -> "p3" [] k = 4 -> "p4"
    [] k = 5 -> "p5" [] k = 6 -> "p6" [] OTHER -> "p7"

PageAbs(k) ==
  CASE k = 1 -> "/p1" [] k = 2 -> "/p2" [] k = 3 -> "/p3" [] k = 4 -> "/p4"
    [] k = 5 -> "/p5" [] k = 6 -> "/p6" [] OTHER -> "/p7"

\* path segments written without a leading slash, and the same segment with one
RelSegs == {PageRel(k) : k \in 1..7} \cup {"w.js", "more"}

Slash(seg) ==
  IF seg = "w.js" THEN "/w.js"
  ELSE IF seg = "more" THEN "/more"
  ELSE IF \E k \in 1..7 : seg = PageRel(k)
    THEN PageAbs(CHOOSE k \in 1..7 : seg = PageRel(k))
  ELSE seg

RECURSIVE lstrip(_)
lstrip(s) == IF s # <<>> /\ Head(s) = WS THEN lstrip(Tail(s)) ELSE s

RECURSIVE rstrip(_)
rstrip(s) ==
  IF s # <<>> /\ s[Len(s)] = WS THEN rstrip(SubSeq(s, 1, Len(s) - 1)) ELSE s

\* str.strip()
strip(s) == rstrip(lstrip(s))

\* str.lower() on a network location
Lower(tok) == IF tok = "CDN.OK.COM" THEN "cdn.ok.com" ELSE tok

(***************************************************************************)
(* urllib.parse                                                            *)
(***************************************************************************)

\* the first match of a search (select_one, find, a regex), as a list of at
\* most one element
first(ms) == IF ms = <<>> THEN <<>> ELSE <<Head(ms)>>

\* urlsplit: scheme, netloc, path, query and fragment of a string.  netloc is
\* None when the string has no "//" part; default is the scheme assumed for a
\* string that has none.
url_rest(scheme, netloc, r3) ==
  [scheme |-> scheme,
   netloc |-> netloc,
   path |-> SelectSeq(r3, LAMBDA t : t \notin QueryToks \cup FragToks),
   query |-> first(SelectSeq(r3, LAMBDA t : t \in QueryToks)),
   frag |-> first(SelectSeq(r3, LAMBDA t : t \in FragToks))]

url_netloc(scheme, r2) ==
  IF r2 # <<>> /\ Head(r2) \in NetlocToks
    THEN url_rest(scheme, <<Head(r2)>>, Tail(r2))
    ELSE url_rest(scheme, <<>>, r2)

url_after_scheme(scheme, r1) ==
  IF r1 # <<>> /\ Head(r1) = "//" THEN url_netloc(scheme, Tail(r1))
  ELSE url_rest(scheme, None, r1)

urlsplit(s, default) ==
  IF s # <<>> /\ Head(s) \in Schemes THEN url_after_scheme(Head(s), Tail(s))
  ELSE url_after_scheme(default, s)

\* urlsplit raises ValueError("Invalid IPv6 URL") on an unbalanced bracket
netloc_raises(netloc) == netloc # None /\ netloc # <<>> /\ netloc[1] = "[bad"

urlparseRaises(s) == netloc_raises(urlsplit(s, "").netloc)

netloc_hostname(netloc) ==
  IF netloc = None \/ netloc = <<>> THEN None ELSE <<Lower(netloc[1])>>

\* urlparse(s).hostname: the lower-cased host, None when there is none
hostname(s) == netloc_hostname(urlsplit(s, "").netloc)

urlunsplit(scheme, netloc, path, query, frag) ==
  (IF scheme = "" THEN <<>> ELSE <<scheme>>)
    \o (IF netloc = None THEN <<>> ELSE <<"//">> \o netloc)
    \o path \o query \o frag

\* urljoin, once both strings are split: b is the base, u the reference
\* split with the base's scheme as the default
join_split(url, b, u) ==
  IF u.scheme # b.scheme \/ u.scheme \notin UsesRelative THEN url
  ELSE IF u.netloc # None /\ u.netloc # <<>>
    THEN urlunsplit(u.scheme, u.netloc, u.path, u.query, u.frag)
  ELSE IF u.path = <<>>
    THEN urlunsplit(u.scheme, b.netloc, b.path,
                    IF u.query = <<>> THEN b.query ELSE u.query, u.frag)
  ELSE IF Head(u.path) \in RelSegs
    THEN urlunsplit(u.scheme, b.netloc,
                    (IF b.path = <<>> THEN <<>>
                     ELSE SubSeq(b.path, 1, Len(b.path) - 1))
                      \o <<Slash(Head(u.path))>> \o Tail(u.path),
                    u.query, u.frag)
  ELSE urlunsplit(u.scheme, b.netloc, u.path, u.query, u.frag)

join_base(url, b) == join_split(url, b, urlsplit(url, b.scheme))

\* urljoin(base, url)
urljoin(base, url) ==
  IF base = <<>> THEN url
  ELSE IF url = <<>> THEN base
  ELSE join_base(url, urlsplit(base, ""))

\* urljoin parses both strings, so it raises where urlsplit does
urljoinRaises(base, url) ==
  base # <<>> /\ url # <<>> /\ (urlparseRaises(base) \/ urlparseRaises(url))

(***************************************************************************)
(* The document tree (bs4)                                                 *)
(***************************************************************************)

NoAttrs == [a \in {} |-> <<>>]

Elem(nid, tag, attrs, kids) ==
  [nid |-> nid, tag |-> tag, attrs |-> attrs, kids |-> kids]

TextNode(nid, toks) ==
  [nid |-> nid, tag |-> "#text", attrs |-> [text |-> toks], kids |-> <<>>]

\* BeautifulSoup(html, "html.parser"): the root object over the parsed nodes
Soup(kids) == Elem(0, "[document]", NoAttrs, kids)

\* tag.get(a)
Get(n, a) == IF a \in DOMAIN n.attrs THEN n.attrs[a] ELSE None

IsTag(n) == n.tag # "#text"

HasClass(n, c) ==
  /\ "class" \in DOMAIN n.attrs
  /\ \E i \in 1..Len(n.attrs.class) : n.attrs.class[i] = c

HasId(n, v) == "id" \in DOMAIN n.attrs /\ n.attrs.id = <<v>>

\* the nodes below a list of siblings, in document order
RECURSIVE Flat(_)
Flat(ns) ==
  IF ns = <<>> THEN <<>>
  ELSE <<Head(ns)>> \o Flat(Head(ns).kids) \o Flat(Tail(ns))

\* tag.descendants
descendants(n) == Flat(n.kids)

\* soup.find_all(...) / soup.select(...) with a test on the element
find_all(n, Test(_)) ==
  SelectSeq(descendants(n), LAMBDA d : IsTag(d) /\ Test(d))

\* soup.select("<parent> > <child>")
select_child(n, Par(_), Ch(_)) ==
  LET ds == descendants(n)
  IN SelectSeq(ds,
       LAMBDA d : /\ IsTag(d) /\ Ch(d)
                  /\ \E i \in 1..Len(ds) :
                       /\ IsTag(ds[i]) /\ Par(ds[i])
                       /\ \E j \in 1..Len(ds[i].kids) : ds[i].kids[j].nid = d.nid)


InTree(n, nid) == \E i \in 1..Len(descendants(n)) : descendants(n)[i].nid = nid

RECURSIVE RemoveIn(_, _)
RemoveIn(ns, nid) ==
  IF ns = <<>> THEN <<>>
  ELSE IF Head(ns).nid = nid THEN Tail(ns)
  ELSE <<[Head(ns) EXCEPT !.kids = RemoveIn(@, nid)]>> \o RemoveIn(Tail(ns), nid)

\* el.decompose() / el.extract(): the element and all below it leave the tree
decompose(n, nid) == [n EXCEPT !.kids = RemoveIn(@, nid)]

RECURSIVE ReplaceIn(_, _, _)
ReplaceIn(ns, nid, new) ==
  IF ns = <<>> THEN <<>>
  ELSE IF Head(ns).nid = nid THEN <<new>> \o Tail(ns)
  ELSE <<[Head(ns) EXCEPT !.kids = ReplaceIn(@, nid, new)]>>
         \o ReplaceIn(Tail(ns), nid, new)

\* el.replace_with(new)
replace_with(n, nid, new) == [n EXCEPT !.kids = ReplaceIn(@, nid, new)]

RECURSIVE AppendIn(_, _, _)
AppendIn(ns, nid, new) ==
  IF ns = <<>> THEN <<>>
  ELSE IF Head(ns).nid = nid
    THEN <<[Head(ns) EXCEPT !.kids = @ \o new]>> \o Tail(ns)
  ELSE <<[Head(ns) EXCEPT !.kids = AppendIn(@, nid, new)]>>
         \o AppendIn(Tail(ns), nid, new)

\* for c in new: el.append(c)
append_all(n, nid, new) == [n EXCEPT !.kids = AppendIn(@, nid, new)]

WithAttr(attrs, a, v) ==
  [x \in DOMAIN attrs \cup {a} |-> IF x = a THEN v ELSE attrs[x]]

RECURSIVE SetAttrIn(_, _, _, _)
SetAttrIn(ns, nid, a, v) ==
  IF ns = <<>> THEN <<>>
  ELSE IF Head(ns).nid = nid
    THEN <<[Head(ns) EXCEPT !.attrs = WithAttr(@, a, v)]>> \o Tail(ns)
  ELSE <<[Head(ns) EXCEPT !.kids = SetAttrIn(@, nid, a, v)]>>
         \o SetAttrIn(Tail(ns), nid, a, v)

\* el[a] = v
set_attr(n, nid, a, v) == [n EXCEPT !.kids = SetAttrIn(@, nid, a, v)]

RECURSIVE SetKidsIn(_, _, _)
SetKidsIn(ns, nid, kids) ==
  IF ns = <<>> THEN <<>>
  ELSE IF Head(ns).nid = nid
    THEN <<[Head(ns) EXCEPT !.kids = kids]>> \o Tail(ns)
  ELSE <<[Head(ns) EXCEPT !.kids = SetKidsIn(@, nid, kids)]>>
         \o SetKidsIn(Tail(ns), nid, kids)

\* el.string = ... / el.clear(): the element's children are replaced
set_kids(n, nid, kids) == [n EXCEPT !.kids = SetKidsIn(@, nid, kids)]

\* el.get_text(strip=True): the stripped text pieces below the element
get_text(n) ==
  LET ts == SelectSeq(descendants(n), LAMBDA d : ~IsTag(d))
      RECURSIVE Cat(_)
      Cat(s) == IF s = <<>> THEN <<>> ELSE strip(Head(s).attrs.text) \o Cat(Tail(s))
  IN Cat(ts)

(***************************************************************************)
(* extract.py: the stages of the pipeline, as functions of the document    *)
(***************************************************************************)

\* map f over every element of the tree below n
MapIn(ns, F(_)) ==
  LET RECURSIVE M(_)
      M(xs) == IF xs = <<>> THEN <<>>
               ELSE <<[F(Head(xs)) EXCEPT !.kids = M(Head(xs).kids)]>> \o M(Tail(xs))
  IN M(ns)

\* decompose every element of a list of handles, in order
RECURSIVE decompose_all(_, _)
decompose_all(n, els) ==
  IF els = <<>> THEN n
  ELSE decompose_all(decompose(n, Head(els).nid), Tail(els))

\* the value _absolutize_paths leaves in one src/href attribute
absolute_path(original_path, page_url) ==
  IF original_path # <<>>
       /\ (Head(original_path) = "javascript:" \/ Head(original_path) \in FragToks)
    THEN original_path
  ELSE LET trimmed_path == strip(original_path)
       IN IF Len(trimmed_path) >= 2 /\ trimmed_path[1] \in {"http:", "https:"}
               /\ trimmed_path[2] = "//"
            THEN original_path
          ELSE IF urljoinRaises(page_url, trimmed_path) THEN original_path
          ELSE urljoin(page_url, trimmed_path)

_absolutize_paths(soup, page_url) ==
  LET Fix(n) ==
        IF ~IsTag(n) THEN n
        ELSE [n EXCEPT !.attrs =
               [a \in DOMAIN n.attrs |->
                  IF a \in {"src", "href"}
                    THEN absolute_path(n.attrs[a], page_url)
                    ELSE n.attrs[a]]]
  IN [soup EXCEPT !.kids = MapIn(@, Fix)]

\* a variant that looks at the host only: a script without src stays
script_decomposed_by_host(script, allow_hosts) ==
  LET src == Get(script, "src")
  IN IF src = None \/ strip(src) = <<>> THEN FALSE
     ELSE IF urlparseRaises(strip(src)) THEN TRUE
     ELSE LET h == hostname(strip(src))
          IN  h = None \/ h[1] \notin allow_hosts

\* a variant that fails open: a src without a hostname stays
script_decomposed_fail_open(script, allow_hosts) ==
  LET src == Get(script, "src")
  IN IF src = None \/ strip(src) = <<>> THEN TRUE
     ELSE IF urlparseRaises(strip(src)) THEN FALSE
     ELSE LET h == hostname(strip(src))
          IN  h # None /\ h[1] \notin allow_hosts

\* whether _remove_scripts decomposes this script element
script_decomposed(script, allow_hosts) ==
  LET src == Get(script, "src")
  IN IF src = None \/ strip(src) = <<>> THEN TRUE
     ELSE IF urlparseRaises(strip(src)) THEN TRUE
     ELSE LET h == hostname(strip(src))
          IN  h = None \/ h[1] \notin allow_hosts

_remove_scripts(soup, allow_hosts) ==
  decompose_all(soup,
    SelectSeq(find_all(soup, LAMBDA t : t.tag = "script"),
              LAMBDA sc : script_decomposed(sc, allow_hosts)))

\* soup.select(selector) for the selector shapes a site configures: a tag
\* name, a class, an id
SelectorKinds == {"tag", "class", "id"}

select(soup, selector) ==
  find_all(soup,
    LAMBDA t : CASE selector.kind = "tag" -> t.tag = selector.val
                 [] selector.kind = "class" -> HasClass(t, selector.val)
                 [] selector.kind = "id" -> HasId(t, selector.val)
                 [] OTHER -> FALSE)

\* for el in soup.select(selector): try: el.decompose() except: ...; return
\* fails holds the elements whose decompose() raises
RECURSIVE decompose_each(_, _, _)
decompose_each(soup, els, fails) ==
  IF els = <<>> THEN [soup |-> soup, raised |-> <<>>]
  ELSE IF Head(els).nid \in fails THEN [soup |-> soup, raised |-> <<Head(els).nid>>]
  ELSE decompose_each(decompose(soup, Head(els).nid), Tail(els), fails)

\* the document _remove_selectors leaves and the element whose decompose()
\* raised, if one did: the except branch logs and returns
RECURSIVE _remove_selectors(_, _, _)
after_selector(r, rest, fails) ==
  IF r.raised # <<>> THEN r ELSE _remove_selectors(r.soup, rest, fails)

_remove_selectors(soup, selectors, fails) ==
  IF selectors = <<>> THEN [soup |-> soup, raised |-> <<>>]
  ELSE after_selector(decompose_each(soup, select(soup, Head(selectors)), fails),
                      Tail(selectors), fails)

IsContents(t) == t.tag = "div" /\ HasId(t, "article-contents")

IsBody(t) == t.tag = "div" /\ HasClass(t, "article-body")

IsPager(t) == t.tag = "div" /\ HasClass(t, "article-inner-pager")

\* soup.select("p.next > a.pagingNav")
pagingNav(soup) ==
  select_child(soup, LAMBDA p : p.tag = "p" /\ HasClass(p, "next"),
                     LAMBDA a : a.tag = "a" /\ HasClass(a, "pagingNav"))

\* soup.select_one("div#article-contents, div.article-body")
article_body(soup) == first(find_all(soup, LAMBDA t : IsContents(t) \/ IsBody(t)))

_check_paging_contents(soup) ==
  LET div_contents == Len(find_all(soup, IsContents))
      div_article_bodies == Len(find_all(soup, IsBody))
      a_pagingNav == Len(pagingNav(soup))
  IN div_contents >= 1 /\ div_article_bodies >= 1 /\ a_pagingNav >= 1

\* a variant that appends only the contents of the last page
merge_last_page(soup, next_page_contents) ==
  LET main_article_body == first(find_all(soup,
                             LAMBDA t : HasId(t, "article-contents")
                                        \/ HasClass(t, "article-body")))
      kept == IF next_page_contents = <<>> THEN <<>>
              ELSE <<next_page_contents[Len(next_page_contents)]>>
  IN IF main_article_body # <<>>
       THEN append_all(soup, main_article_body[1].nid, kept)
       ELSE soup

\* the end of _process_paging: the collected contents are appended to the
\* first page's container and the pager elements are decomposed
merge_pages(soup, next_page_contents) ==
  LET main_article_body == article_body(soup)
      merged == IF main_article_body # <<>>
                  THEN append_all(soup, main_article_body[1].nid, next_page_contents)
                  ELSE soup
  IN decompose_all(merged, find_all(merged, IsPager))

IsTweet(t) == t.tag = "blockquote" /\ HasClass(t, "twitter-tweet")

WidgetsJs == <<"https:", "//", "platform.twitter.com", "/widgets.js">>

\* the markup render_twitter_card returns for a placeholder: the rendered
\* iframe inside its wrapper
RenderedCard(nid) ==
  Elem(3000 + nid, "div", [class |-> <<"twitter-tweet-rendered">>],
       <<Elem(4000 + nid, "iframe",
              [src |-> <<"https:", "//", "platform.twitter.com", "/embed">>],
              <<>>)>>)

\* _convert_twitter_cards, before the render: an empty link gets its target
\* as text
inject_link_text(soup, blockquote) ==
  LET link_tag == first(find_all(blockquote, LAMBDA t : t.tag = "a"))
  IN IF link_tag # <<>> /\ get_text(link_tag[1]) = <<>>
          /\ Get(link_tag[1], "href") # None
       THEN set_kids(soup, link_tag[1].nid,
                     <<TextNode(2000 + link_tag[1].nid, Get(link_tag[1], "href"))>>)
       ELSE soup

\* _convert_twitter_cards, after the loop: the widgets script is removed
remove_widgets_js(soup) ==
  decompose_all(soup,
    find_all(soup, LAMBDA t : t.tag = "script" /\ Get(t, "src") = WidgetsJs))


(***************************************************************************)
(* config.py: the media patterns                                           *)
(***************************************************************************)

ImageExts == {".jpg", ".jpeg", ".png", ".gif", ".webp", ".JPG"}

VideoExts == {".mp4", ".webm", ".mov", ".m4v", ".MP4"}

LAZY_ATTRS == <<"data-src", "data-lazy-src", "data-original">>

\* MEDIA_RE.search(s): a media extension at the end, or before a query string
MEDIA_RE(s) ==
  \/ \E i \in 1..Len(s) :
       /\ s[i] \in ImageExts \cup VideoExts
       /\ i = Len(s) \/ s[i + 1] \in QueryToks
  \/ s # <<>> /\ s[Len(s)] \in QueryMediaToks

\* VIDEO_RE.search(s): a video extension at the very end
VIDEO_RE(s) == s # <<>> /\ s[Len(s)] \in VideoExts

DataImageToks == {"image/png;base64"}

\* s.startswith("data:image")
starts_data_image(s) ==
  Len(s) >= 2 /\ s[1] = "data:" /\ s[2] \in DataImageToks

\* _find_valid_media_url(tag): "" is the empty sequence
_find_valid_media_url(tag) ==
  LET lazy == SelectSeq(LAZY_ATTRS,
                 LAMBDA a : Get(tag, a) # None /\ MEDIA_RE(strip(Get(tag, a))))
      src == Get(tag, "src")
  IN IF lazy # <<>> THEN strip(Get(tag, lazy[1]))
     ELSE IF src # None /\ MEDIA_RE(strip(src)) /\ ~starts_data_image(strip(src))
       THEN strip(src)
     ELSE <<>>

Formatted == <<"my-formatted">>

\* soup.new_tag("video", ...) as the unwrapping stages build it
new_video(nid, src) ==
  Elem(nid, "video",
       [src |-> src, controls |-> <<>>, playsinline |-> <<>>,
        style |-> <<"width:100%;height:auto;display:block;">>,
        class |-> Formatted, loading |-> <<"lazy">>,
        referrerpolicy |-> <<"no-referrer">>],
       <<>>)

\* soup.new_tag("img", ...) as the unwrapping stages build it
new_img(nid, src) ==
  Elem(nid, "img",
       [src |-> src, loading |-> <<"lazy">>,
        referrerpolicy |-> <<"no-referrer">>,
        style |-> <<"max-width:100%;height:auto;display:block">>,
        class |-> Formatted],
       <<>>)

\* find_all("img", class_=lambda c: c != "my-formatted"): bs4 tries the test
\* on None when there is no class, else on each class and on the joined value
img_not_formatted(t) == t.tag = "img" /\ Get(t, "class") # Formatted

\* what _normalize_images puts in the place of one image
normalized_image(img) ==
  LET src == _find_valid_media_url(img)
  IN IF src = <<>> THEN <<>>
     ELSE IF VIDEO_RE(src) THEN <<new_video(5000 + img.nid, src)>>
     ELSE <<new_img(5000 + img.nid, src)>>

RECURSIVE normalize_each(_, _)
normalize_each(soup, imgs) ==
  IF imgs = <<>> THEN soup
  ELSE LET new == normalized_image(Head(imgs))
       IN normalize_each(
            IF new = <<>> THEN decompose(soup, Head(imgs).nid)
            ELSE replace_with(soup, Head(imgs).nid, new[1]),
            Tail(imgs))

_normalize_images(soup) == normalize_each(soup, find_all(soup, img_not_formatted))

\* p.text.strip() is empty and p.find(("a", "img", "video", "iframe", "input"))
\* finds nothing
visually_empty(p) ==
  /\ get_text(p) = <<>>
  /\ find_all(p, LAMBDA t : t.tag \in {"a", "img", "video", "iframe", "input"}) = <<>>

\* each paragraph is tested when the loop reaches it, on the tree as it is then
RECURSIVE cleanup_each(_, _)
cleanup_each(soup, ps) ==
  IF ps = <<>> THEN soup
  ELSE LET here == SelectSeq(descendants(soup), LAMBDA d : d.nid = Head(ps).nid)
       IN cleanup_each(
            IF here # <<>> /\ visually_empty(here[1])
              THEN decompose(soup, Head(ps).nid) ELSE soup,
            Tail(ps))

_cleanup_empty_tags(soup) ==
  cleanup_each(soup, find_all(soup, LAMBDA t : t.tag = "p"))

\* str(tag): the markup of an element, which does not hold object identities
RECURSIVE Markup(_)
Markup(n) ==
  [tag |-> n.tag, attrs |-> n.attrs,
   kids |-> [i \in 1..Len(n.kids) |-> Markup(n.kids[i])]]

\* tag.find_next_sibling(): the next sibling that is an element
find_next_sibling(soup, nid) ==
  LET holders == SelectSeq(<<soup>> \o descendants(soup),
                   LAMBDA p : \E j \in 1..Len(p.kids) : p.kids[j].nid = nid)
  IN IF holders = <<>> THEN <<>>
     ELSE LET ks == holders[1].kids
              at == CHOOSE j \in 1..Len(ks) : ks[j].nid = nid
          IN first(SelectSeq(SubSeq(ks, at + 1, Len(ks)), IsTag))

\* the position of the i-th <br> in its group of consecutive <br>: bs4
\* compares elements by markup (Tag.__eq__)
RECURSIVE br_run(_, _, _)
br_run(soup, br_tags, i) ==
  IF i = 1 THEN 1
  ELSE LET nxt == find_next_sibling(soup, br_tags[i - 1].nid)
       IN IF nxt # <<>> /\ Markup(nxt[1]) = Markup(br_tags[i])
            THEN br_run(soup, br_tags, i - 1) + 1
            ELSE 1

max_consecutive == 2

_collapse_excessive_brs(soup) ==
  LET br_tags == find_all(soup, LAMBDA t : t.tag = "br")
      extra == {i \in 1..Len(br_tags) : br_run(soup, br_tags, i) > max_consecutive}
      RECURSIVE Drop(_, _)
      Drop(n, i) ==
        IF i > Len(br_tags) THEN n
        ELSE Drop(IF i \in extra THEN decompose(n, br_tags[i].nid) ELSE n, i + 1)
  IN Drop(soup, 1)


\* parse_qs(urlparse(href).query): the parameter values, in order
parse_qs_values(href) ==
  LET q == urlsplit(href, "").query
  IN IF q = <<>> THEN <<>>
     ELSE IF q[1] \in QueryMediaToks
       THEN << <<"http:", "//", "cdn.ok.com", "/i", ".jpg">> >>
     ELSE IF q[1] = "?p=2" THEN << <<"2">> >>
     ELSE << <<"1">> >>

\* s.lower().startswith("http")
starts_http(s) == s # <<>> /\ Head(s) \in {"http:", "https:"}

\* href = elem.get("href", "").strip()
anchor_href(elem) ==
  IF Get(elem, "href") = None THEN <<>> ELSE strip(Get(elem, "href"))

\* the parameter values of the href that are media URLs
anchor_params(href) ==
  IF href = <<>> \/ urlparseRaises(href) THEN <<>>
  ELSE SelectSeq(parse_qs_values(href), LAMBDA v : starts_http(v) /\ MEDIA_RE(v))

\* the URL of the first nested img, video or source, empty when it has none
nested_media_url(nested_media) ==
  IF nested_media = <<>> THEN <<>> ELSE _find_valid_media_url(nested_media[1])

\* the candidates in the order the code tries them
anchor_pick(params, href, nested_url, text_content) ==
  IF params # <<>> THEN params[1]
  ELSE IF MEDIA_RE(href) THEN href
  ELSE IF nested_url # <<>> THEN nested_url
  ELSE IF starts_http(text_content) /\ MEDIA_RE(text_content) THEN text_content
  ELSE <<>>

anchor_with_href(elem, href) ==
  anchor_pick(anchor_params(href), href,
              nested_media_url(first(find_all(elem,
                LAMBDA t : t.tag \in {"img", "video", "source"}))),
              get_text(elem))

\* the media URL _unwrap_anchored_media finds for an anchor
anchor_media_url(elem) == anchor_with_href(elem, anchor_href(elem))

has_significant_text(elem) ==
  \E i \in 1..Len(elem.kids) :
    ~IsTag(elem.kids[i]) /\ strip(elem.kids[i].attrs.text) # <<>>

\* the media URL _unwrap_anchored_media finds for a paragraph or video wrapper
block_media_url(elem) ==
  nested_media_url(
    first(SelectSeq(find_all(elem, LAMBDA t : t.tag \in {"img", "video", "source"}),
                    LAMBDA m : _find_valid_media_url(m) # <<>>)))

\* the URL found for one element of soup.select("a, p, div.wp-video"), empty
\* when the element is skipped
unwrap_url(elem) ==
  IF find_all(elem, LAMBDA t : t.tag = "iframe") # <<>> THEN <<>>
  ELSE IF elem.tag = "a" THEN anchor_media_url(elem)
  ELSE IF has_significant_text(elem) THEN <<>>
  ELSE block_media_url(elem)

LowerExt(tok) == IF tok = ".MP4" THEN ".mp4" ELSE IF tok = ".JPG" THEN ".jpg" ELSE tok

\* urlparse(url).path.lower().endswith((".mp4", ".webm", ".mov", ".ogv"))
is_video_by_extension(url) ==
  LET path == urlsplit(url, "").path
  IN path # <<>> /\ LowerExt(path[Len(path)]) \in {".mp4", ".webm", ".mov", ".ogv"}

unwrap_selected(t) ==
  t.tag \in {"a", "p"} \/ (t.tag = "div" /\ HasClass(t, "wp-video"))

\* the first loop of _unwrap_anchored_media; raised is set when urlparse(url)
\* raises, which the function does not catch.  The loop visits the elements in
\* document order, so each is as it was selected when its turn comes, and
\* replacing one that an earlier replacement detached changes nothing.
unwrap_one(st, elem, url) ==
  IF url = <<>> \/ ~MEDIA_RE(url) THEN st
  ELSE IF urlparseRaises(url) THEN [st EXCEPT !.raised = TRUE]
  ELSE [st EXCEPT !.soup =
          replace_with(@, elem.nid,
            IF VIDEO_RE(url) \/ is_video_by_extension(url)
              THEN new_video(5000 + elem.nid, url)
              ELSE new_img(5000 + elem.nid, url))]

RECURSIVE unwrap_each(_, _)
unwrap_each(st, elems) ==
  IF elems = <<>> \/ st.raised THEN st
  ELSE unwrap_each(unwrap_one(st, Head(elems), unwrap_url(Head(elems))),
                   Tail(elems))

\* the second loop: a <video> without src takes the src of its first <source>
hoist_source(soup, video_el) ==
  LET source == first(find_all(video_el,
                   LAMBDA t : t.tag = "source" /\ Get(t, "src") # None))
      class_list == IF Get(video_el, "class") = None THEN <<>>
                    ELSE Get(video_el, "class")
      classes == IF \E i \in 1..Len(class_list) : class_list[i] = "my-formatted"
                   THEN class_list ELSE class_list \o Formatted
  IN IF source = <<>> THEN soup
     ELSE replace_with(soup, video_el.nid,
            [video_el EXCEPT
               !.attrs = WithAttr(WithAttr(WithAttr(WithAttr(WithAttr(@,
                 "src", strip(Get(source[1], "src"))),
                 "class", classes),
                 "controls", <<>>),
                 "playsinline", <<>>),
                 "style", <<"width:100%;height:auto;display:block;">>),
               !.kids = <<>>])

RECURSIVE hoist_each(_, _)
hoist_each(soup, videos) ==
  IF videos = <<>> THEN soup
  ELSE hoist_each(hoist_source(soup, Head(videos)), Tail(videos))

\* _unwrap_anchored_media: [soup, raised]
_unwrap_anchored_media(soup) ==
  LET st == unwrap_each([soup |-> soup, raised |-> FALSE],
                        find_all(soup, unwrap_selected))
  IN IF st.raised THEN st
     ELSE [st EXCEPT !.soup =
             hoist_each(@, find_all(@,
               LAMBDA t : /\ t.tag = "video"
                          /\ find_all(t, LAMBDA x : x.tag = "source") # <<>>
                          /\ (Get(t, "src") = None \/ Get(t, "src") = <<>>)))]

\* what _convert_video_js puts in the place of one <video-js>
converted_video_js(vjs_element) ==
  LET source == first(find_all(vjs_element,
                   LAMBDA t : /\ t.tag = "source"
                              /\ Get(t, "type") = <<"video/mp4">>
                              /\ Get(t, "src") # None))
      src == IF source = <<>> THEN <<>> ELSE strip(Get(source[1], "src"))
      poster == IF Get(vjs_element, "poster") = None THEN <<>>
                ELSE strip(Get(vjs_element, "poster"))
  IN IF src = <<>> THEN <<>>
     ELSE <<Elem(6000 + vjs_element.nid, "video",
                 [src |-> src, poster |-> poster, class |-> Formatted,
                  controls |-> <<>>, playsinline |-> <<>>,
                  style |-> <<"width:100%;height:auto;display:block;">>,
                  referrerpolicy |-> <<"no-referrer">>],
                 <<>>)>>

RECURSIVE convert_each(_, _)
convert_each(soup, els) ==
  IF els = <<>> THEN soup
  ELSE LET new == converted_video_js(Head(els))
       IN convert_each(
            IF new = <<>> THEN decompose(soup, Head(els).nid)
            ELSE replace_with(soup, Head(els).nid, new[1]),
            Tail(els))

_convert_video_js(soup) ==
  convert_each(soup, find_all(soup, LAMBDA t : t.tag = "video-js"))


\* tok.split("-") for the id and class values of the documents
SplitDash(tok) ==
  CASE tok = "imgur-AbCd123" -> <<"imgur", "AbCd123">>
    [] tok = "post-XyZ9876" -> <<"post", "XyZ9876">>
    [] tok = "img-abc" -> <<"img", "abc">>
    [] tok = "imgur-embed-pub" -> <<"imgur", "embed", "pub">>
    [] OTHER -> <<tok>>

\* len(part) >= 5 and part.isalnum()
LongAlnum == {"imgur", "embed", "AbCd123", "XyZ9876", "QrSt555"}

ImgurHosts == {"imgur.com", "i.imgur.com"}

\* the group of re.search(r"imgur\.com/([a-zA-Z0-9]{5,})", ...) when the path
\* segment after the host is seg, "" when the pattern does not match there
SegId(seg) ==
  CASE seg = "/AbCd123" -> "AbCd123"
    [] seg = "/QrSt555" -> "QrSt555"
    [] OTHER -> ""

\* the ID an id or data-id value yields, empty when it yields none
dashed_id(v) ==
  IF v = None \/ Len(v) # 1 THEN <<>>
  ELSE LET parts == SplitDash(v[1])
       IN IF Len(parts) > 1 /\ parts[Len(parts)] \in LongAlnum
            THEN <<parts[Len(parts)]>> ELSE <<>>

\* a variant that asks the id attribute before the src
_extract_imgur_id_by_id_first(wrapper_tag) ==
  LET src == Get(wrapper_tag, "src")
      hits == IF src = None THEN {}
              ELSE {i \in 1..(Len(src) - 1) :
                      src[i] \in ImgurHosts /\ SegId(src[i + 1]) # ""}
  IN IF dashed_id(Get(wrapper_tag, "id")) # <<>>
       THEN dashed_id(Get(wrapper_tag, "id"))
     ELSE IF hits # {} THEN <<SegId(src[(CHOOSE i \in hits : \A j \in hits : i <= j) + 1])>>
     ELSE dashed_id(Get(wrapper_tag, "data-id"))

\* _extract_imgur_id(wrapper_tag): the ID, empty for None
_extract_imgur_id(wrapper_tag) ==
  LET src == Get(wrapper_tag, "src")
      hits == IF src = None THEN {}
              ELSE {i \in 1..(Len(src) - 1) :
                      src[i] \in ImgurHosts /\ SegId(src[i + 1]) # ""}
      class_list == IF Get(wrapper_tag, "class") = None THEN <<>>
                    ELSE Get(wrapper_tag, "class")
      RECURSIVE Parts(_)
      Parts(cs) == IF cs = <<>> THEN <<>> ELSE SplitDash(Head(cs)) \o Parts(Tail(cs))
      long == SelectSeq(Parts(class_list), LAMBDA part : part \in LongAlnum)
  IN IF hits # {} THEN <<SegId(src[(CHOOSE i \in hits : \A j \in hits : i <= j) + 1])>>
     ELSE IF dashed_id(Get(wrapper_tag, "id")) # <<>>
       THEN dashed_id(Get(wrapper_tag, "id"))
     ELSE IF dashed_id(Get(wrapper_tag, "data-id")) # <<>>
       THEN dashed_id(Get(wrapper_tag, "data-id"))
     ELSE IF long # <<>> THEN <<long[1]>>
     ELSE <<>>

_create_imgur_img_tag(nid, img_id) ==
  Elem(nid, "img",
       [src |-> <<"https:", "//", "i.imgur.com", "/">> \o img_id \o <<".jpeg">>,
        alt |-> <<"imgur ID:">> \o img_id \o <<" image">>,
        loading |-> <<"lazy">>, referrerpolicy |-> <<"no-referrer">>,
        style |-> <<"max-width:100%;height:auto;display:block">>,
        class |-> Formatted],
       <<>>)

\* the image _unwrap_imgur puts in the place of an element, empty for none
unwrapped_imgur(t) ==
  IF t.tag = "iframe"
    THEN IF _extract_imgur_id(t) = <<>> THEN <<>>
         ELSE <<_create_imgur_img_tag(7000 + t.nid, _extract_imgur_id(t))>>
  ELSE IF strip(Get(t, "data-id")) = <<>> THEN <<>>
  ELSE <<_create_imgur_img_tag(7000 + t.nid, strip(Get(t, "data-id")))>>

RECURSIVE imgur_each(_, _)
imgur_each(soup, els) ==
  IF els = <<>> THEN soup
  ELSE imgur_each(
         IF unwrapped_imgur(Head(els)) = <<>> THEN soup
         ELSE replace_with(soup, Head(els).nid, unwrapped_imgur(Head(els))[1]),
         Tail(els))

_unwrap_imgur(soup) ==
  LET iframes == find_all(soup,
         LAMBDA t : /\ t.tag = "iframe" /\ Get(t, "src") # None
                    /\ \E i \in 1..Len(t.attrs.src) : t.attrs.src[i] \in ImgurHosts)
      after == imgur_each(soup, iframes)
  IN imgur_each(after,
       find_all(after,
         LAMBDA t : /\ t.tag = "blockquote" /\ HasClass(t, "imgur-embed-pub")
                    /\ Get(t, "data-id") # None))

\* whether _normalize_iframes rewrites the size of this iframe
iframe_normalized(iframe, allow_hosts) ==
  LET src == Get(iframe, "src")
  IN /\ src # None /\ strip(src) # <<>>
     /\ ~urlparseRaises(strip(src))
     /\ hostname(strip(src)) # None
     /\ hostname(strip(src))[1] \in allow_hosts
     /\ hostname(strip(src))[1] # "platform.twitter.com"

_normalize_iframes(soup, allow_hosts) ==
  LET Fix(n) ==
        IF n.tag = "iframe" /\ iframe_normalized(n, allow_hosts)
          THEN [n EXCEPT !.attrs =
                 WithAttr(WithAttr(WithAttr(@, "width", <<"100%">>),
                   "height", <<"auto">>),
                   "style", <<"aspect-ratio: 16 / 9; width: 100%; height: auto;">>)]
          ELSE n
  IN [soup EXCEPT !.kids = MapIn(@, Fix)]


(***************************************************************************)
(* The documents and the web the pipeline is run on                        *)
(***************************************************************************)

\* follow-up pages of an article (pages 2, 3, ...)
MaxFollow == 2

\* social-card placeholders in a document
MaxCards == 2

\* <script> elements in a document given to _remove_scripts
MaxScripts == 2

PageUrl(k) == <<"https:", "//", "blog.jp", "/art", PageAbs(k)>>

\* the URL of a follow-up page that the site keeps one directory below the
\* first page
DeepUrl(k) == <<"https:", "//", "blog.jp", "/art", "/more", PageAbs(k)>>

ContentTok(k) ==
  CASE k = 1 -> "c1" [] k = 2 -> "c2" [] k = 3 -> "c3" [] k = 4 -> "c4"
    [] k = 5 -> "c5" [] OTHER -> "c6"

\* <p class="next"><a class="pagingNav" href=...>next</a></p> of page k
NextLink(k, href) ==
  Elem(100 * k + 21, "p", [class |-> <<"next">>],
       <<Elem(100 * k + 22, "a",
              IF href = None THEN [class |-> <<"pagingNav">>]
              ELSE [class |-> <<"pagingNav">>, href |-> href],
              <<TextNode(100 * k + 23, <<"next">>)>>)>>)

Pager(k, href) ==
  Elem(100 * k + 20, "div", [class |-> <<"article-inner-pager">>],
       <<NextLink(k, href)>>)

Contents(k, kids) == Elem(100 * k + 1, "div", [id |-> <<"article-contents">>], kids)

Body(k, kids) == Elem(100 * k + 2, "div", [class |-> <<"article-body">>], kids)

ScriptKinds == {"inline", "empty", "blank", "ok", "okUpper", "okSpaced", "evil",
                "schemeRelative", "relative", "noHost", "malformed", "widgets"}

ScriptSrc(kind) ==
  CASE kind = "empty" -> <<>>
    [] kind = "blank" -> <<WS>>
    [] kind = "ok" -> <<"https:", "//", "cdn.ok.com", "/w.js">>
    [] kind = "okUpper" -> <<"https:", "//", "CDN.OK.COM", "/w.js">>
    [] kind = "okSpaced" -> <<WS, "https:", "//", "cdn.ok.com", "/w.js", WS>>
    [] kind = "evil" -> <<"https:", "//", "evil.com", "/w.js">>
    [] kind = "schemeRelative" -> <<"//", "evil.com", "/w.js">>
    [] kind = "relative" -> <<"/w.js">>
    [] kind = "noHost" -> <<"https:", "//">>
    [] kind = "malformed" -> <<"http:", "//", "[bad", "/w.js">>
    [] kind = "widgets" -> WidgetsJs
    [] OTHER -> None

Script(nid, kind) ==
  Elem(nid, "script",
       IF kind = "inline" THEN NoAttrs ELSE [src |-> ScriptSrc(kind)],
       IF kind = "inline" THEN <<TextNode(nid + 1, <<"alert(1)">>)>> ELSE <<>>)

TweetUrl == <<"https:", "//", "twitter.com", "/status">>

CardKinds == {"text", "empty", "nohref", "nolink", "nest"}

\* <blockquote class="twitter-tweet">...</blockquote>
Tweet(nid, kind) ==
  Elem(nid, "blockquote", [class |-> <<"twitter-tweet">>],
       CASE kind = "text" ->
              <<Elem(nid + 1, "a", [href |-> TweetUrl], <<TextNode(nid + 2, <<"tweet">>)>>)>>
         [] kind = "empty" -> <<Elem(nid + 1, "a", [href |-> TweetUrl], <<>>)>>
         [] kind = "nohref" -> <<Elem(nid + 1, "a", NoAttrs, <<>>)>>
         [] kind = "nest" ->
              <<Elem(nid + 1, "a", [href |-> TweetUrl], <<TextNode(nid + 2, <<"tweet">>)>>),
                Elem(nid + 3, "blockquote", [class |-> <<"twitter-tweet">>],
                     <<Elem(nid + 4, "a", [href |-> TweetUrl], <<>>)>>)>>
         [] OTHER -> <<TextNode(nid + 1, <<"quote">>)>>)

\* what a follow-up page looks like: its container, and where its next link is
LinkShapes == {"nested", "bare", "plain"}

\* pages kept below the first page, which link on with a relative href
DeepShapes == {"deep"}

\* pages whose next link leads to themselves or to the page before
CycleShapes == {"self", "back"}

\* the URL that answers with page k
ServedAt(k, shape) == IF shape \in DeepShapes THEN DeepUrl(k) ELSE PageUrl(k)

EndShapes == {"end", "nohref", "badhref"}

FollowPage(k, shape) ==
  LET c == TextNode(100 * k + 3, <<ContentTok(k)>>)
  IN Soup(CASE shape = "nested" ->
                 <<Contents(k, <<c, Script(100 * k + 10, "evil"),
                                 Pager(k, <<PageRel(k + 1)>>)>>)>>
            [] shape = "bare" -> <<Body(k, <<c, NextLink(k, <<PageRel(k + 1)>>)>>)>>
            [] shape = "deep" -> <<Body(k, <<c, NextLink(k, <<PageRel(k + 1)>>)>>)>>
            [] shape = "self" -> <<Body(k, <<c, NextLink(k, <<PageRel(k)>>)>>)>>
            [] shape = "back" -> <<Body(k, <<c, NextLink(k, <<PageRel(k - 1)>>)>>)>>
            [] shape = "plain" -> <<c, NextLink(k, PageUrl(k + 1))>>
            [] shape = "nohref" -> <<Contents(k, <<c, NextLink(k, None)>>)>>
            [] shape = "badhref" ->
                 <<Contents(k, <<c, NextLink(k, <<"http:", "//", "[bad", "/p">>)>>)>>
            [] OTHER -> <<Contents(k, <<c>>)>>)

\* whether a page of this shape has a content container
HasContainer(shape) == shape # "plain"

PagingKinds == {"none", "nested", "bare", "nobody"}

FirstPaging(kind) ==
  LET c == TextNode(103, <<ContentTok(1)>>)
  IN CASE kind = "nested" ->
            <<Contents(1, <<c, Body(1, <<TextNode(104, <<"b1">>)>>),
                            Pager(1, <<PageRel(2)>>)>>)>>
       [] kind = "bare" ->
            <<Body(1, <<c>>), Contents(1, <<TextNode(104, <<"d1">>)>>),
              NextLink(1, <<PageRel(2)>>)>>
       [] kind = "nobody" -> <<Contents(1, <<c, Pager(1, <<PageRel(2)>>)>>)>>
       [] kind = "deep" ->
            <<Body(1, <<c>>), Contents(1, <<TextNode(104, <<"d1">>)>>),
              NextLink(1, <<"more", PageAbs(2)>>)>>
       [] OTHER -> <<Contents(1, <<c>>)>>

\* the elements with the given kinds, with handles from base on
Scripts(base, kinds) == [i \in 1..Len(kinds) |-> Script(base + 2 * i, kinds[i])]

Tweets(base, kinds) == [i \in 1..Len(kinds) |-> Tweet(base + 5 * i, kinds[i])]

\* an image in a paragraph, an empty paragraph and a run of line breaks
MediaPart ==
  <<Elem(180, "p", NoAttrs,
         <<Elem(181, "img",
                WithAttr(NoAttrs, "data-src",
                         <<"http:", "//", "cdn.ok.com", "/i", ".jpg">>), <<>>)>>),
    Elem(182, "p", NoAttrs, <<TextNode(183, <<WS>>)>>),
    Elem(184, "br", NoAttrs, <<>>), Elem(185, "br", NoAttrs, <<>>),
    Elem(186, "br", NoAttrs, <<>>)>>

\* the page an RSS item links to
FirstPage(paging, scripts, cards, media) ==
  Soup(FirstPaging(paging) \o Scripts(140, scripts) \o Tweets(150, cards)
         \o (IF media THEN MediaPart ELSE <<>>))

\* sequences over S of lengths lo..hi
SeqsOf(S, lo, hi) == UNION {[1..n -> S] : n \in lo..hi}

\* the follow-up pages a site serves: every page before the last links on
Webs ==
  {w \in SeqsOf(LinkShapes \cup EndShapes, 0, MaxFollow) :
     \A i \in 1..(Len(w) - 1) : w[i] \in LinkShapes}


(***************************************************************************)
(* State                                                                   *)
(***************************************************************************)

\* sites due in one run
MaxSites == 2

VARIABLES
  \* process_article_html: its arguments, its document and where it is
  soup, page_url, allow_hosts, remove_selectors_list, pc,
  \* _process_paging: its locals
  next_page_contents, next_page_link, current_url,
  \* _convert_twitter_cards: the placeholders still to process
  blockquotes_to_process,
  \* the pages the site serves after the first one
  web,
  \* ScraperService: the browser, the open browsing contexts, and for each
  \* caller (0: the pipeline run alone, s: the task of site s) its call of
  \* render_twitter_card
  browser, contexts, rpc, rctx, rexit,
  \* history: the document when the last stage began, the stages, fetches and
  \* renders so far, the URLs fetched, how the stitching loop ended, and what
  \* each render returned
  before, trace, fetched, paging_exit, rendered,
  \* what _remove_selectors gave to logger.warning
  warnings,
  \* index.py run(): where it is, the sites due, the task of each site and
  \* its result, the articles table, the last-access stamps, the summary
  \* logged, the sites whose feed or pages were fetched, and how often the
  \* retention policy was applied and the browser stopped
  run_pc, sites_to_scrape, task, results, articles_table, last_access,
  summary, fetches, maintained, stopped

pipeVars == <<soup, page_url, allow_hosts, remove_selectors_list, pc,
              next_page_contents, next_page_link, current_url,
              blockquotes_to_process, web, before, trace, fetched,
              paging_exit, rendered, warnings>>

renderVars == <<browser, contexts, rpc, rctx, rexit>>

runVars == <<run_pc, sites_to_scrape, task, results, articles_table,
             last_access, summary, fetches, maintained, stopped>>

vars == <<pipeVars, renderVars, runVars>>

Callers == 0..MaxSites

(***************************************************************************)
(* playw.py: ScraperService.render_twitter_card                            *)
(***************************************************************************)

\* the ways out of the try block once the context exists: the rendered
\* markup, one of the three early returns, or an exception (a timeout of
\* wait_for_selector among them)
ExitPaths == {"rendered", "no_iframe", "no_content_frame", "deleted", "exception"}

\* what the call returns on each way out; "no_context" is new_context raising
RenderReturn(path) == IF path = "rendered" THEN "html" ELSE "None"

\* the context object new_context returns: one that is not open already
new_context == CHOOSE k \in 1..(Cardinality(contexts) + 1) : k \notin contexts

\* the call up to its first await: True when it raises RuntimeError
render_raises == ~browser

\* await self.browser.new_context(...)
RenderNewContext(c) ==
  /\ rpc[c] = "new_context"
  /\ \E ok \in BOOLEAN :
       IF ok
         THEN /\ contexts' = contexts \cup {new_context}
              /\ rctx' = [rctx EXCEPT ![c] = new_context]
              /\ rpc' = [rpc EXCEPT ![c] = "body"]
              /\ UNCHANGED rexit
         ELSE \* except Exception: return None; finally: context is None
              /\ rexit' = [rexit EXCEPT ![c] = "no_context"]
              /\ rpc' = [rpc EXCEPT ![c] = "return"]
              /\ UNCHANGED <<contexts, rctx>>
  /\ UNCHANGED browser
  /\ UNCHANGED <<pipeVars, runVars>>

\* new_page ... iframe_handle.evaluate: the rest of the try block
RenderBody(c) ==
  /\ rpc[c] = "body"
  /\ \E path \in ExitPaths : rexit' = [rexit EXCEPT ![c] = path]
  /\ rpc' = [rpc EXCEPT ![c] = "finally"]
  /\ UNCHANGED <<browser, contexts, rctx>>
  /\ UNCHANGED <<pipeVars, runVars>>

\* a variant that closes the context only at the end of the try block, which
\* the early returns and the exceptions do not reach
RenderClosesOnSuccess(c) ==
  /\ rpc[c] = "finally"
  /\ contexts' = IF rexit[c] = "rendered" THEN contexts \ {rctx[c]} ELSE contexts
  /\ rctx' = [rctx EXCEPT ![c] = 0]
  /\ rpc' = [rpc EXCEPT ![c] = "return"]
  /\ UNCHANGED <<browser, rexit>>
  /\ UNCHANGED <<pipeVars, runVars>>

\* finally: if context: await context.close()
RenderFinally(c) ==
  /\ rpc[c] = "finally"
  /\ contexts' = contexts \ {rctx[c]}
  /\ rctx' = [rctx EXCEPT ![c] = 0]
  /\ rpc' = [rpc EXCEPT ![c] = "return"]
  /\ UNCHANGED <<browser, rexit>>
  /\ UNCHANGED <<pipeVars, runVars>>

(***************************************************************************)
(* extract.py: process_article_html                                        *)
(***************************************************************************)

\* the stages in the order process_article_html calls them
Stages ==
  <<"absolutize_paths", "check_paging_contents", "remove_scripts",
    "remove_selectors", "convert_twitter_cards", "unwrap_anchored_media",
    "convert_video_js", "unwrap_imgur", "normalize_iframes",
    "normalize_images", "cleanup_empty_tags", "collapse_excessive_brs">>

\* a variant that prunes before it stitches
StageAfterPruningFirst(s) ==
  LET order == <<"absolutize_paths", "remove_scripts", "remove_selectors",
                 "check_paging_contents", "convert_twitter_cards",
                 "unwrap_anchored_media", "convert_video_js", "unwrap_imgur",
                 "normalize_iframes", "normalize_images", "cleanup_empty_tags",
                 "collapse_excessive_brs">>
      i == CHOOSE j \in 1..Len(order) : order[j] = s
  IN IF i = Len(order) THEN "done" ELSE order[i + 1]

\* the stage called after stage s returns, "done" after the last
StageAfter(s) ==
  LET i == CHOOSE j \in 1..Len(Stages) : Stages[j] = s
  IN IF i = Len(Stages) THEN "done" ELSE Stages[i + 1]

\* a stage that only rewrites the document
Rewrite(stage, new) ==
  /\ pc = stage
  /\ before' = soup
  /\ soup' = new
  /\ trace' = Append(trace, stage)
  /\ pc' = StageAfter(stage)
  /\ UNCHANGED <<page_url, allow_hosts, remove_selectors_list,
                 next_page_contents, next_page_link, current_url,
                 blockquotes_to_process, web, fetched, paging_exit, rendered, warnings>>
  /\ UNCHANGED <<renderVars, runVars>>

Absolutize ==
  /\ pc = "absolutize_paths"
  /\ Rewrite("absolutize_paths", _absolutize_paths(soup, page_url))

\* if _check_paging_contents(soup): await _process_paging(soup, page_url)
CheckPaging ==
  /\ pc = "check_paging_contents"
  /\ before' = soup
  /\ IF _check_paging_contents(soup)
       THEN /\ pc' = "process_paging"
            /\ trace' = trace \o <<"check_paging_contents", "process_paging">>
            /\ next_page_contents' = <<>>
            /\ next_page_link' = first(pagingNav(soup))
            /\ current_url' = page_url
       ELSE /\ pc' = StageAfter("check_paging_contents")
            /\ trace' = Append(trace, "check_paging_contents")
            /\ UNCHANGED <<next_page_contents, next_page_link, current_url>>
  /\ UNCHANGED <<soup, page_url, allow_hosts, remove_selectors_list,
                 blockquotes_to_process, web, fetched, paging_exit, rendered, warnings>>
  /\ UNCHANGED <<renderVars, runVars>>

\* fetch_html_text(url, "mobile"): the page as parsed, empty for "" (an HTTP
\* or request error, which fetch_html_text logs and turns into "")
fetch_html_text(url, netok) ==
  IF netok /\ \E k \in 2..(Len(web) + 1) : url = ServedAt(k, web[k - 1])
    THEN <<FollowPage(CHOOSE k \in 2..(Len(web) + 1) : url = ServedAt(k, web[k - 1]),
                      web[(CHOOSE k \in 2..(Len(web) + 1) :
                             url = ServedAt(k, web[k - 1])) - 1])>>
    ELSE <<>>

href == IF next_page_link = <<>> THEN None ELSE Get(next_page_link[1], "href")

\* while next_page_link ...: href = ...; if not href ...: break
loop_continues == next_page_link # <<>> /\ href # None /\ href # <<>>

\* a variant that resolves every next link against the URL of the article
next_page_url_from_page_url == urljoin(page_url, href)

\* next_page_url = urljoin(current_url, href)
next_page_url == urljoin(current_url, href)

\* the statements of _process_paging after the loop
PagingEnds(why) ==
  /\ soup' = merge_pages(soup, next_page_contents)
  /\ paging_exit' = why
  /\ pc' = StageAfter("check_paging_contents")
  /\ next_page_contents' = <<>>
  /\ next_page_link' = <<>>
  /\ current_url' = <<>>

\* a variant in which a failed fetch ends the pipeline
on_fetch_failed_raising ==
  /\ pc' = "raised"
  /\ paging_exit' = "fetch_failed"
  /\ UNCHANGED <<soup, next_page_contents, next_page_link, current_url>>

\* if not next_page_html: ...; break
on_fetch_failed == PagingEnds("fetch_failed")

\* the turns of the loop that are followed
MaxFetches == 4

\* one turn of the loop: the next page is fetched and its contents collected
PagingFetch ==
  /\ pc = "process_paging"
  /\ loop_continues
  /\ Len(fetched) < MaxFetches
  /\ ~urljoinRaises(current_url, href)
  /\ \E netok \in BOOLEAN :
       LET next_page_html == fetch_html_text(next_page_url, netok)
       IN /\ fetched' = Append(fetched, next_page_url)
          /\ trace' = Append(trace, "fetch")
          /\ IF next_page_html = <<>>
               THEN on_fetch_failed
               ELSE LET next_soup == next_page_html[1]
                        body == article_body(next_soup)
                    IN /\ next_page_contents' =
                            next_page_contents
                              \o (IF body = <<>> THEN <<>> ELSE body[1].kids)
                       /\ next_page_link' = first(pagingNav(next_soup))
                       /\ current_url' = next_page_url
                       /\ UNCHANGED <<soup, pc, paging_exit>>
  /\ UNCHANGED <<page_url, allow_hosts, remove_selectors_list,
                 blockquotes_to_process, web, before, rendered, warnings>>
  /\ UNCHANGED <<renderVars, runVars>>

\* urljoin(current_url, href) raises: nothing in the pipeline catches it
PagingRaises ==
  /\ pc = "process_paging"
  /\ loop_continues
  /\ urljoinRaises(current_url, href)
  /\ pc' = "raised"
  /\ UNCHANGED <<soup, page_url, allow_hosts, remove_selectors_list,
                 next_page_contents, next_page_link, current_url,
                 blockquotes_to_process, web, before, trace, fetched,
                 paging_exit, rendered, warnings>>
  /\ UNCHANGED <<renderVars, runVars>>

\* the loop ends for want of a next link or of its href
PagingDone ==
  /\ pc = "process_paging"
  /\ ~loop_continues
  /\ PagingEnds(IF next_page_link = <<>> THEN "no_link" ELSE "no_href")
  /\ UNCHANGED <<page_url, allow_hosts, remove_selectors_list,
                 blockquotes_to_process, web, before, trace, fetched, rendered, warnings>>
  /\ UNCHANGED <<renderVars, runVars>>

RemoveScripts ==
  /\ pc = "remove_scripts"
  /\ Rewrite("remove_scripts", _remove_scripts(soup, allow_hosts))

\* the elements of which one may fail to decompose: those the selectors match
decompose_may_raise(doc, selectors) ==
  {{}} \cup {{t.nid} : t \in UNION {{select(doc, selectors[i])[j] :
                                        j \in 1..Len(select(doc, selectors[i]))} :
                                      i \in 1..Len(selectors)}}

RemoveSelectorsWith(r) ==
  /\ before' = soup
  /\ soup' = r.soup
  /\ warnings' = warnings \o r.raised
  /\ trace' = Append(trace, "remove_selectors")
  /\ pc' = StageAfter("remove_selectors")
  /\ UNCHANGED <<page_url, allow_hosts, remove_selectors_list,
                 next_page_contents, next_page_link, current_url,
                 blockquotes_to_process, web, fetched, paging_exit, rendered>>
  /\ UNCHANGED <<renderVars, runVars>>

RemoveSelectors ==
  /\ pc = "remove_selectors"
  /\ \E fails \in decompose_may_raise(soup, remove_selectors_list) :
       RemoveSelectorsWith(_remove_selectors(soup, remove_selectors_list, fails))


\* the element with handle nid in the document, if it is still attached
attached(doc, nid) == first(find_all(doc, LAMBDA t : t.nid = nid))

\* blockquotes_to_process = list(soup.find_all("blockquote", class_="twitter-tweet"))
TwitterStart ==
  /\ pc = "convert_twitter_cards"
  /\ before' = soup
  /\ trace' = Append(trace, "convert_twitter_cards")
  /\ LET found == find_all(soup, IsTweet)
     IN IF found = <<>>
          THEN /\ pc' = StageAfter("convert_twitter_cards")
               /\ UNCHANGED blockquotes_to_process
          ELSE /\ pc' = "twitter_loop"
               /\ blockquotes_to_process' = [i \in 1..Len(found) |-> found[i].nid]
  /\ UNCHANGED <<soup, page_url, allow_hosts, remove_selectors_list,
                 next_page_contents, next_page_link, current_url, web,
                 fetched, paging_exit, rendered, warnings>>
  /\ UNCHANGED <<renderVars, runVars>>

\* the loop body up to the await: the link text is injected and
\* render_twitter_card is called
TwitterCall ==
  /\ pc = "twitter_loop"
  /\ LET blockquote == attached(soup, Head(blockquotes_to_process))
     IN soup' = IF blockquote = <<>> THEN soup
                ELSE inject_link_text(soup, blockquote[1])
  /\ IF render_raises
       THEN /\ pc' = "raised"
            /\ UNCHANGED <<rpc, trace>>
       ELSE /\ pc' = "twitter_render"
            /\ rpc' = [rpc EXCEPT ![0] = "new_context"]
            /\ trace' = Append(trace, "render")
  /\ UNCHANGED <<page_url, allow_hosts, remove_selectors_list,
                 next_page_contents, next_page_link, current_url,
                 blockquotes_to_process, web, before, fetched, paging_exit,
                 rendered, warnings>>
  /\ UNCHANGED <<browser, contexts, rctx, rexit, runVars>>

\* a variant that drops a placeholder it could not render
after_render_dropping(doc, nid, rendered_card_html) ==
  IF rendered_card_html = "html" THEN replace_with(doc, nid, RenderedCard(nid))
  ELSE decompose(doc, nid)

\* if rendered_card_html: blockquote.replace_with(new_card_content)
after_render(doc, nid, rendered_card_html) ==
  IF rendered_card_html = "html" THEN replace_with(doc, nid, RenderedCard(nid))
  ELSE doc

\* the loop body after the await: a rendered card replaces its placeholder;
\* after the last placeholder the widgets script is removed
TwitterReturn ==
  /\ pc = "twitter_render"
  /\ rpc[0] = "return"
  /\ LET nid == Head(blockquotes_to_process)
         replaced == after_render(soup, nid, RenderReturn(rexit[0]))
         last == Tail(blockquotes_to_process) = <<>>
     IN /\ soup' = IF last THEN remove_widgets_js(replaced) ELSE replaced
        /\ pc' = IF last THEN StageAfter("convert_twitter_cards") ELSE "twitter_loop"
        /\ rendered' = Append(rendered, [nid |-> nid, ret |-> RenderReturn(rexit[0])])
  /\ blockquotes_to_process' = Tail(blockquotes_to_process)
  /\ rpc' = [rpc EXCEPT ![0] = "idle"]
  /\ rexit' = [rexit EXCEPT ![0] = "-"]
  /\ UNCHANGED <<page_url, allow_hosts, remove_selectors_list,
                 next_page_contents, next_page_link, current_url, web,
                 before, trace, fetched, paging_exit, warnings>>
  /\ UNCHANGED <<browser, contexts, rctx, runVars>>

\* _unwrap_anchored_media(soup): urlparse(url) is not guarded
UnwrapAnchoredMedia ==
  /\ pc = "unwrap_anchored_media"
  /\ LET st == _unwrap_anchored_media(soup)
     IN /\ soup' = st.soup
        /\ pc' = IF st.raised THEN "raised" ELSE StageAfter("unwrap_anchored_media")
  /\ before' = soup
  /\ trace' = Append(trace, "unwrap_anchored_media")
  /\ UNCHANGED <<page_url, allow_hosts, remove_selectors_list,
                 next_page_contents, next_page_link, current_url,
                 blockquotes_to_process, web, fetched, paging_exit, rendered, warnings>>
  /\ UNCHANGED <<renderVars, runVars>>

ConvertVideoJs ==
  /\ pc = "convert_video_js"
  /\ Rewrite("convert_video_js", _convert_video_js(soup))

UnwrapImgur ==
  /\ pc = "unwrap_imgur"
  /\ Rewrite("unwrap_imgur", _unwrap_imgur(soup))

NormalizeIframes ==
  /\ pc = "normalize_iframes"
  /\ Rewrite("normalize_iframes", _normalize_iframes(soup, allow_hosts))

NormalizeImages ==
  /\ pc = "normalize_images"
  /\ Rewrite("normalize_images", _normalize_images(soup))

CleanupEmptyTags ==
  /\ pc = "cleanup_empty_tags"
  /\ Rewrite("cleanup_empty_tags", _cleanup_empty_tags(soup))

CollapseExcessiveBrs ==
  /\ pc = "collapse_excessive_brs"
  /\ Rewrite("collapse_excessive_brs", _collapse_excessive_brs(soup))

(***************************************************************************)
(* The pipeline on one article                                             *)
(***************************************************************************)

\* the service idle: no call of render_twitter_card in progress
RenderIdle(started) ==
  /\ browser = started
  /\ contexts = {}
  /\ rpc = [c \in Callers |-> "idle"]
  /\ rctx = [c \in Callers |-> 0]
  /\ rexit = [c \in Callers |-> "-"]

\* process_article_html is at a stage with the document doc
PipeAt(stage, doc, w) ==
  /\ soup = doc
  /\ before = doc
  /\ web = w
  /\ page_url = PageUrl(1)
  /\ pc = stage
  /\ next_page_contents = <<>>
  /\ next_page_link = <<>>
  /\ current_url = <<>>
  /\ blockquotes_to_process = <<>>
  /\ trace = <<>>
  /\ fetched = <<>>
  /\ paging_exit = "-"
  /\ rendered = <<>>
  /\ warnings = <<>>

\* process_article_html is entered with the parsed page
PipeEntered(doc, w) == PipeAt("absolutize_paths", doc, w)

\* no run of index.py in progress
RunIdle ==
  /\ run_pc = "idle"
  /\ sites_to_scrape = <<>>
  /\ task = <<>>
  /\ results = <<>>
  /\ articles_table = {}
  /\ last_access = {}
  /\ summary = <<>>
  /\ fetches = {}
  /\ maintained = 0
  /\ stopped = 0

AllowLists == {{"cdn.ok.com", "platform.twitter.com"}}

SelectorLists == {<<>>, <<[kind |-> "class", val |-> "next"]>>}

ScriptLists == {<<>>, <<"evil", "widgets">>}

\* paginated articles, articles with social cards, and articles with both
InitPipe ==
  /\ RunIdle
  /\ allow_hosts \in AllowLists
  /\ remove_selectors_list \in SelectorLists
  /\ \/ \E paging \in PagingKinds \ {"none"}, w \in Webs, scripts \in ScriptLists :
          /\ PipeEntered(FirstPage(paging, scripts, <<>>, FALSE), w)
          /\ RenderIdle(TRUE)
     \/ \E cards \in SeqsOf(CardKinds, 1, MaxCards), scripts \in ScriptLists,
           media \in BOOLEAN, started \in BOOLEAN :
          /\ PipeEntered(FirstPage("none", scripts, cards, media), <<>>)
          /\ RenderIdle(started)
     \/ \E paging \in {"nested", "bare"}, w \in SeqsOf(LinkShapes \cup EndShapes, 0, 1),
           kind \in CardKinds :
          /\ PipeEntered(FirstPage(paging, <<"evil", "widgets">>, <<kind>>, TRUE), w)
          /\ RenderIdle(TRUE)


(***************************************************************************)
(* index.py: run, and scraper.py: the task of one site                     *)
(***************************************************************************)

\* entries in one feed
MaxItems == 1

\* entries in the feed of a run with one site
MaxFeed == 2

SiteIds == 1..MaxSites

\* a task: where it is, the feed entries still to process, the articles
\* collected, the articles given to insert_many, what the task returned or
\* raised, how far an entry went whose URL the articles table holds, how
\* insert_many ended and the count it returned, what the last
\* fetch_html_text of process_feed_entries returned, and what fetch_rss_feed
\* returned
NoTask == [pc |-> "not_created", todo |-> 0, articles |-> 0, handed |-> 0,
           ret |-> [kind |-> "pending", val |-> 0],
           known |-> "-", insert |-> "-", count |-> 0, mobile_html |-> "-",
           feed |-> "-"]

Returned(s) == [kind |-> "int", val |-> s]

\* the exception that left the task of site s
Raised(s) == [kind |-> "exc", val |-> s]

pipeUnused ==
  <<soup, page_url, allow_hosts, remove_selectors_list, pc,
    next_page_contents, next_page_link, current_url,
    blockquotes_to_process, web, before, trace, fetched, paging_exit,
    rendered, warnings>>

\* a variant that goes on without the browser
StartIgnoringFailure ==
  /\ run_pc = "start"
  /\ \E launched \in BOOLEAN : browser' = launched
  /\ run_pc' = "prepare"
  /\ UNCHANGED <<contexts, rpc, rctx, rexit>>
  /\ UNCHANGED <<sites_to_scrape, task, results, articles_table, last_access,
                 summary, fetches, maintained, stopped>>
  /\ UNCHANGED pipeUnused

\* try: await scraper_service.start(); an exception goes to except, finally
Start ==
  /\ run_pc = "start"
  /\ \E launched \in BOOLEAN :
       /\ browser' = launched
       /\ run_pc' = IF launched THEN "prepare" ELSE "start_failed"
  /\ UNCHANGED <<contexts, rpc, rctx, rexit>>
  /\ UNCHANGED <<sites_to_scrape, task, results, articles_table, last_access,
                 summary, fetches, maintained, stopped>>
  /\ UNCHANGED pipeUnused

\* context = await prepare(...); if context is None: return.  A query of
\* prepare that raises goes to except and finally, as the return does
Prepare ==
  /\ run_pc = "prepare"
  /\ \E n \in 0..MaxSites, raises \in BOOLEAN :
       /\ sites_to_scrape' = IF raises THEN <<>> ELSE [i \in 1..n |-> i]
       /\ run_pc' = IF raises \/ n = 0 THEN "finally" ELSE "create_tasks"
  /\ UNCHANGED <<task, results, articles_table, last_access, summary,
                 fetches, maintained, stopped>>
  /\ UNCHANGED <<renderVars, pipeUnused>>

\* tasks = [asyncio.create_task(...) for site in sites]
CreateTasks ==
  /\ run_pc = "create_tasks"
  /\ task' = [s \in SiteIds |->
                IF s <= Len(sites_to_scrape)
                  THEN [task[s] EXCEPT !.pc = "scrape_site"] ELSE task[s]]
  /\ run_pc' = "gather"
  /\ UNCHANGED <<sites_to_scrape, results, articles_table, last_access,
                 summary, fetches, maintained, stopped>>
  /\ UNCHANGED <<renderVars, pipeUnused>>

TaskStep(s, new) ==
  /\ task' = [task EXCEPT ![s] = new]
  /\ UNCHANGED <<run_pc, sites_to_scrape, results, summary, maintained, stopped>>
  /\ UNCHANGED pipeUnused

\* scrape_site returned: scrape_site_and_update_timestamp goes on
ScrapeSiteReturns(s) == [task[s] EXCEPT !.pc = "update_last_access"]

\* an exception leaves scrape_site_and_update_timestamp: logged and re-raised
TaskRaises(s) == [task[s] EXCEPT !.pc = "failed", !.ret = Raised(s)]

\* scrape_site: a site without feed or domain is skipped
TaskScrapeSite(s) ==
  /\ task[s].pc = "scrape_site"
  /\ \E registered \in BOOLEAN :
       TaskStep(s, IF registered THEN [task[s] EXCEPT !.pc = "fetch_rss_feed"]
                   ELSE ScrapeSiteReturns(s))
  /\ UNCHANGED <<articles_table, last_access, fetches>>
  /\ UNCHANGED renderVars

\* a variant in which a feed that could not be fetched ends the task
feed_is_none_raising(s) == [TaskRaises(s) EXCEPT !.feed = "None"]

\* feed = await fetch_rss_feed(site); if not feed: return (0, 0)
feed_is_none(s) == [ScrapeSiteReturns(s) EXCEPT !.feed = "None"]

\* fetch_rss_feed: the feed, None on an HTTP or request error, or another
\* exception
TaskFetchRssFeed(s) ==
  /\ task[s].pc = "fetch_rss_feed"
  /\ fetches' = fetches \cup {s}
  /\ \/ \E n \in 0..MaxItems :
          TaskStep(s, [task[s] EXCEPT !.pc = "process_feed_entries", !.todo = n,
                                      !.feed = "parsed"])
     \/ TaskStep(s, feed_is_none(s))
     \/ TaskStep(s, TaskRaises(s))
  /\ UNCHANGED <<articles_table, last_access>>
  /\ UNCHANGED renderVars

\* the rows an earlier run wrote for a site
earlier_rows(s) == {r \in articles_table : r.site_id = s /\ r.n = 0}

\* whether the URL of a feed entry is in the articles table: only a table
\* with rows of the site has such URLs
url_in_table(s) == IF earlier_rows(s) = {} THEN {FALSE} ELSE BOOLEAN

\* article_repo.check_exists_by_url: the count of the rows with the URL is
\* positive; an APIError of the query is logged and False is returned
check_exists_by_url(in_table, api_error) ==
  IF api_error THEN FALSE ELSE in_table

\* the furthest of two marks of the work done for a known URL
KnownWork == <<"-", "fetched", "piped", "batched">>

KnownRank(w) == CHOOSE i \in 1..Len(KnownWork) : KnownWork[i] = w

Furthest(a, b) == IF KnownRank(a) >= KnownRank(b) THEN a ELSE b

\* a variant in which a failed fetch of the page ends the task
FetchArticlePageOrRaise(s, in_table, page) ==
  /\ fetches' = fetches \cup {s}
  /\ IF page
       THEN TaskStep(s, [task[s] EXCEPT
                          !.pc = "process_article_html",
                          !.mobile_html = "html",
                          !.known = IF in_table THEN Furthest(@, "piped") ELSE @])
       ELSE TaskStep(s, [TaskRaises(s) EXCEPT !.mobile_html = ""])

\* process_single_article begins: fetch_html_text(link, "mobile"), which
\* returns "" after an HTTP or request error; without the page it returns
\* None, with it process_article_html is called
FetchArticlePage(s, in_table, page) ==
  /\ fetches' = fetches \cup {s}
  /\ IF page
       THEN TaskStep(s, [task[s] EXCEPT
                          !.pc = "process_article_html",
                          !.mobile_html = "html",
                          !.known = IF in_table THEN Furthest(@, "piped") ELSE @])
       ELSE TaskStep(s, [task[s] EXCEPT
                          !.todo = @ - 1,
                          !.mobile_html = "",
                          !.known = IF in_table THEN Furthest(@, "fetched") ELSE @])

\* process_feed_entries: an entry without link or with a URL that
\* check_exists_by_url finds is skipped; otherwise its page is fetched and,
\* unless the fetch fails, goes to process_article_html; after the last
\* entry scrape_site inserts or returns
TaskFeedEntry(s) ==
  /\ task[s].pc = "process_feed_entries"
  /\ IF task[s].todo = 0
       THEN /\ TaskStep(s, [(IF task[s].articles = 0 THEN ScrapeSiteReturns(s)
                             ELSE [task[s] EXCEPT !.pc = "insert_many"])
                            EXCEPT !.mobile_html = "-"])
            /\ UNCHANGED fetches
       ELSE \E link, api_error, page \in BOOLEAN, in_table \in url_in_table(s) :
              IF ~link \/ check_exists_by_url(in_table, api_error)
                THEN /\ TaskStep(s, [task[s] EXCEPT !.todo = @ - 1])
                     /\ UNCHANGED fetches
                ELSE FetchArticlePage(s, in_table, page)
  /\ UNCHANGED <<articles_table, last_access>>
  /\ UNCHANGED renderVars

\* process_article_html in a task: it calls render_twitter_card for each
\* placeholder of the article, then returns the content, unless a stage
\* raises
TaskArticle(s) ==
  /\ task[s].pc = "process_article_html"
  /\ \/ /\ ~render_raises
        /\ TaskStep(s, [task[s] EXCEPT !.pc = "render_twitter_card"])
        /\ rpc' = [rpc EXCEPT ![s] = "new_context"]
        /\ UNCHANGED <<browser, contexts, rctx, rexit>>
     \/ /\ TaskStep(s, [task[s] EXCEPT
                           !.pc = "process_feed_entries",
                           !.todo = @ - 1, !.articles = @ + 1,
                           !.known = IF @ = "piped" THEN "batched" ELSE @])
        /\ UNCHANGED renderVars
     \/ /\ TaskStep(s, TaskRaises(s))
        /\ UNCHANGED renderVars
  /\ UNCHANGED <<articles_table, last_access, fetches>>

\* render_twitter_card returned to the task
TaskRendered(s) ==
  /\ task[s].pc = "render_twitter_card"
  /\ rpc[s] = "return"
  /\ TaskStep(s, [task[s] EXCEPT !.pc = "process_article_html"])
  /\ rpc' = [rpc EXCEPT ![s] = "idle"]
  /\ rexit' = [rexit EXCEPT ![s] = "-"]
  /\ UNCHANGED <<browser, contexts, rctx>>
  /\ UNCHANGED <<articles_table, last_access, fetches>>

\* the rows insert_many writes for a task
rows(s) == {[site_id |-> s, n |-> i] : i \in 1..task[s].articles}

\* the ways the insert of insert_many ends: the rows are written, or an
\* APIError with the code of a duplicate key, or another APIError
InsertEnds == {"written", "23505", "error"}

\* a variant that raises every APIError
insert_many_except_raising(s, code) ==
  [TaskRaises(s) EXCEPT !.insert = code]

\* except APIError as e: if e.code == "23505": return 0; raise
insert_many_except(s, code) ==
  IF code = "23505"
    THEN [ScrapeSiteReturns(s) EXCEPT !.insert = code, !.count = 0]
    ELSE [TaskRaises(s) EXCEPT !.insert = code]

\* article_repo.insert_many: the rows are written and counted, or a
\* duplicate key makes it return 0, or another error is raised
TaskInsertMany(s) ==
  /\ task[s].pc = "insert_many"
  /\ \E end \in InsertEnds :
       IF end = "written"
         THEN /\ articles_table' = articles_table \cup rows(s)
              /\ TaskStep(s, [ScrapeSiteReturns(s) EXCEPT
                                !.handed = task[s].articles,
                                !.insert = end,
                                !.count = Cardinality(rows(s))])
         ELSE /\ UNCHANGED articles_table
              /\ TaskStep(s, [insert_many_except(s, end) EXCEPT
                                !.handed = task[s].articles])
  /\ UNCHANGED <<last_access, fetches>>
  /\ UNCHANGED renderVars

\* site_repo.update_last_access(site.id); return site.id
TaskUpdateLastAccess(s) ==
  /\ task[s].pc = "update_last_access"
  /\ \/ /\ last_access' = last_access \cup {s}
        /\ TaskStep(s, [task[s] EXCEPT !.pc = "done", !.ret = Returned(s)])
     \/ /\ UNCHANGED last_access
        /\ TaskStep(s, TaskRaises(s))
  /\ UNCHANGED <<articles_table, fetches>>
  /\ UNCHANGED renderVars

finished(s) == task[s].pc \in {"done", "failed"}

\* a variant of gather that returns with the first task that ends
gather_returns_first == \E i \in 1..Len(sites_to_scrape) : finished(sites_to_scrape[i])

\* asyncio.gather(*tasks, return_exceptions=True) returns when every task
\* has returned or raised
gather_returns == \A i \in 1..Len(sites_to_scrape) : finished(sites_to_scrape[i])

Gather ==
  /\ run_pc = "gather"
  /\ gather_returns
  /\ results' = [i \in 1..Len(sites_to_scrape) |-> task[sites_to_scrape[i]].ret]
  /\ run_pc' = "log_scraping_results"
  /\ UNCHANGED <<sites_to_scrape, task, articles_table, last_access, summary,
                 fetches, maintained, stopped>>
  /\ UNCHANGED <<renderVars, pipeUnused>>

\* the positions of the results that are exceptions, in order
exception_places(res) ==
  SelectSeq([i \in 1..Len(res) |-> i], LAMBDA i : res[i].kind = "exc")

\* "Failure Details": for i, result in enumerate(results): if
\* isinstance(result, Exception): site = sites[i]
failure_details(res, sites, places) ==
  [k \in 1..Len(places) |-> [site |-> sites[places[k]], exc |-> res[places[k]]]]

\* a variant that takes the k-th site for the k-th exception
failure_details_by_rank(res, sites, places) ==
  [k \in 1..Len(places) |-> [site |-> sites[k], exc |-> res[places[k]]]]

\* a variant of the summary that names the sites of the failures by rank
log_scraping_results_by_rank(res, sites) ==
  LET success_ids == {res[i].val : i \in {j \in 1..Len(res) : res[j].kind = "int"}}
      failure_count == Len(sites) - Cardinality(success_ids)
  IN [success |-> Cardinality(success_ids), failure |-> failure_count,
      success_ids |-> success_ids,
      details |-> IF failure_count > 0
                    THEN failure_details_by_rank(res, sites, exception_places(res))
                    ELSE <<>>]

\* the summary: the ids and the number of the successes, the number of the
\* failures, and the failure details, which are logged when a site failed
log_scraping_results(res, sites) ==
  LET success_ids == {res[i].val : i \in {j \in 1..Len(res) : res[j].kind = "int"}}
      failure_count == Len(sites) - Cardinality(success_ids)
  IN [success |-> Cardinality(success_ids), failure |-> failure_count,
      success_ids |-> success_ids,
      details |-> IF failure_count > 0
                    THEN failure_details(res, sites, exception_places(res))
                    ELSE <<>>]

LogScrapingResults ==
  /\ run_pc = "log_scraping_results"
  /\ summary' = <<log_scraping_results(results, sites_to_scrape)>>
  /\ run_pc' = "maintain_article_limit"
  /\ UNCHANGED <<sites_to_scrape, task, results, articles_table, last_access,
                 fetches, maintained, stopped>>
  /\ UNCHANGED <<renderVars, pipeUnused>>

\* a variant that leaves the retention policy out when a site task failed
MaintainArticleLimitUnlessFailed ==
  /\ run_pc = "maintain_article_limit"
  /\ maintained' = IF summary[1].failure > 0 THEN maintained ELSE maintained + 1
  /\ run_pc' = "finally"
  /\ UNCHANGED <<sites_to_scrape, task, results, articles_table, last_access,
                 summary, fetches, stopped>>
  /\ UNCHANGED <<renderVars, pipeUnused>>

\* await maintain_article_limit(): it re-raises its errors, run() logs them
MaintainArticleLimit ==
  /\ run_pc = "maintain_article_limit"
  /\ maintained' = maintained + 1
  /\ run_pc' = "finally"
  /\ UNCHANGED <<sites_to_scrape, task, results, articles_table, last_access,
                 summary, fetches, stopped>>
  /\ UNCHANGED <<renderVars, pipeUnused>>

\* a variant that stops the browser only when it was started
StopIfStarted ==
  /\ run_pc \in {"finally", "start_failed"}
  /\ stopped' = IF run_pc = "start_failed" THEN stopped ELSE stopped + 1
  /\ run_pc' = IF run_pc = "start_failed" THEN "finished_failed" ELSE "finished"
  /\ UNCHANGED <<sites_to_scrape, task, results, articles_table, last_access,
                 summary, fetches, maintained>>
  /\ UNCHANGED <<renderVars, pipeUnused>>

\* finally: await scraper_service.stop()
Stop ==
  /\ run_pc \in {"finally", "start_failed"}
  /\ stopped' = stopped + 1
  /\ run_pc' = IF run_pc = "start_failed" THEN "finished_failed" ELSE "finished"
  /\ UNCHANGED <<sites_to_scrape, task, results, articles_table, last_access,
                 summary, fetches, maintained>>
  /\ UNCHANGED <<renderVars, pipeUnused>>

InitRun ==
  /\ run_pc = "start"
  /\ sites_to_scrape = <<>>
  /\ task = [s \in SiteIds |-> NoTask]
  /\ results = <<>>
  /\ articles_table = {}
  /\ last_access = {}
  /\ summary = <<>>
  /\ fetches = {}
  /\ maintained = 0
  /\ stopped = 0
  /\ RenderIdle(FALSE)
  /\ PipeEntered(Soup(<<>>), <<>>)
  /\ allow_hosts = {}
  /\ remove_selectors_list = <<>>

NextRun ==
  \/ Start
  \/ Prepare
  \/ CreateTasks
  \/ \E s \in SiteIds : TaskScrapeSite(s)
  \/ \E s \in SiteIds : TaskFetchRssFeed(s)
  \/ \E s \in SiteIds : TaskFeedEntry(s)
  \/ \E s \in SiteIds : TaskArticle(s)
  \/ \E s \in SiteIds : RenderNewContext(s)
  \/ \E s \in SiteIds : RenderBody(s)
  \/ \E s \in SiteIds : RenderFinally(s)
  \/ \E s \in SiteIds : TaskRendered(s)
  \/ \E s \in SiteIds : TaskInsertMany(s)
  \/ \E s \in SiteIds : TaskUpdateLastAccess(s)
  \/ Gather
  \/ LogScrapingResults
  \/ MaintainArticleLimit
  \/ Stop

SpecRun == InitRun /\ [][NextRun]_vars

\* a run with one site whose feed was fetched, over a table that may hold
\* an article of an earlier run
InitFeed ==
  /\ run_pc = "gather"
  /\ sites_to_scrape = <<1>>
  /\ \E n \in 1..MaxFeed :
       task = [s \in SiteIds |->
                 IF s = 1 THEN [NoTask EXCEPT !.pc = "process_feed_entries",
                                              !.todo = n, !.feed = "parsed"]
                 ELSE NoTask]
  /\ results = <<>>
  /\ articles_table \in {{}, {[site_id |-> 1, n |-> 0]}}
  /\ last_access = {}
  /\ summary = <<>>
  /\ fetches = {1}
  /\ maintained = 0
  /\ stopped = 0
  /\ RenderIdle(TRUE)
  /\ PipeEntered(Soup(<<>>), <<>>)
  /\ allow_hosts = {}
  /\ remove_selectors_list = <<>>

NextFeed ==
  \/ \E s \in SiteIds : TaskFeedEntry(s)
  \/ \E s \in SiteIds : TaskArticle(s)
  \/ \E s \in SiteIds : RenderNewContext(s)
  \/ \E s \in SiteIds : RenderBody(s)
  \/ \E s \in SiteIds : RenderFinally(s)
  \/ \E s \in SiteIds : TaskRendered(s)
  \/ \E s \in SiteIds : TaskInsertMany(s)
  \/ \E s \in SiteIds : TaskUpdateLastAccess(s)
  \/ Gather
  \/ LogScrapingResults
  \/ MaintainArticleLimit
  \/ Stop

SpecFeed == InitFeed /\ [][NextFeed]_vars

NextPipe ==
  \/ Absolutize
  \/ CheckPaging
  \/ PagingFetch
  \/ PagingRaises
  \/ PagingDone
  \/ RemoveScripts
  \/ RemoveSelectors
  \/ TwitterStart
  \/ TwitterCall
  \/ RenderNewContext(0)
  \/ RenderBody(0)
  \/ RenderFinally(0)
  \/ TwitterReturn
  \/ UnwrapAnchoredMedia
  \/ ConvertVideoJs
  \/ UnwrapImgur
  \/ NormalizeIframes
  \/ NormalizeImages
  \/ CleanupEmptyTags
  \/ CollapseExcessiveBrs

SpecPipe == InitPipe /\ [][NextPipe]_vars

(***************************************************************************)
(* The stitching of paginated articles                                     *)
(***************************************************************************)

InitStitch ==
  /\ RunIdle
  /\ RenderIdle(TRUE)
  /\ allow_hosts \in AllowLists
  /\ remove_selectors_list = <<>>
  /\ \E paging \in PagingKinds, w \in Webs :
       PipeEntered(FirstPage(paging, <<>>, <<>>, FALSE), w)

\* the follow-up pages of a site that keeps some of them one directory below
DeepWebs ==
  {w \in SeqsOf(LinkShapes \cup DeepShapes \cup EndShapes, 0, MaxFollow) :
     \A i \in 1..(Len(w) - 1) : w[i] \in LinkShapes \cup DeepShapes}

\* the follow-up pages of a site on which a next link may lead back
CycleWebs ==
  {w \in SeqsOf(LinkShapes \cup CycleShapes \cup EndShapes, 0, MaxFollow) :
     \A i \in 1..(Len(w) - 1) : w[i] \in LinkShapes \cup CycleShapes}

InitCycle ==
  /\ RunIdle
  /\ RenderIdle(TRUE)
  /\ allow_hosts \in AllowLists
  /\ remove_selectors_list = <<>>
  /\ \E paging \in {"nested", "bare"}, w \in CycleWebs :
       PipeEntered(FirstPage(paging, <<>>, <<>>, FALSE), w)

NextCycle ==
  \/ Absolutize
  \/ CheckPaging
  \/ PagingFetch
  \/ PagingRaises
  \/ PagingDone

SpecCycle == InitCycle /\ [][NextCycle]_vars

\* an article whose next link leads one directory below
InitResolve ==
  /\ RunIdle
  /\ RenderIdle(TRUE)
  /\ allow_hosts \in AllowLists
  /\ remove_selectors_list = <<>>
  /\ \E paging \in {"deep", "bare"}, w \in DeepWebs :
       PipeEntered(FirstPage(paging, <<>>, <<>>, FALSE), w)

NextResolve ==
  \/ Absolutize
  \/ CheckPaging
  \/ PagingFetch
  \/ PagingRaises
  \/ PagingDone

SpecResolve == InitResolve /\ [][NextResolve]_vars

\* process_article_html up to the return of _process_paging
NextStitch ==
  \/ Absolutize
  \/ CheckPaging
  \/ PagingFetch
  \/ PagingRaises
  \/ PagingDone

\* the event loop runs a pipeline that can take a step: every await in it
\* ends (fetch_html_text has a timeout)
SpecStitch == InitStitch /\ [][NextStitch]_vars /\ WF_vars(NextStitch)

(***************************************************************************)
(* _remove_scripts on documents of script elements                         *)
(***************************************************************************)

ScriptAllowLists == {{}, {"cdn.ok.com"}, {"cdn.ok.com", "evil.com"}}

\* the scripts at the top of the document or inside an element
ScriptPage(kinds, wrapped) ==
  Soup(IF wrapped THEN <<Elem(130, "div", NoAttrs, Scripts(140, kinds))>>
       ELSE Scripts(140, kinds))

InitScripts ==
  /\ RunIdle
  /\ RenderIdle(TRUE)
  /\ allow_hosts \in ScriptAllowLists
  /\ remove_selectors_list = <<>>
  /\ \E kinds \in SeqsOf(ScriptKinds, 1, MaxScripts), wrapped \in BOOLEAN :
       PipeAt("remove_scripts", ScriptPage(kinds, wrapped), <<>>)

NextScripts == RemoveScripts

SpecScripts == InitScripts /\ [][NextScripts]_vars

(***************************************************************************)
(* _remove_selectors alone, on documents with elements the selectors match *)
(***************************************************************************)

Selectors ==
  {[kind |-> "class", val |-> "next"], [kind |-> "tag", val |-> "blockquote"],
   [kind |-> "id", val |-> "article-contents"], [kind |-> "tag", val |-> "aside"]}

MaxSelectors == 2

InitSelectors ==
  /\ RunIdle
  /\ RenderIdle(TRUE)
  /\ allow_hosts = {}
  /\ remove_selectors_list \in SeqsOf(Selectors, 1, MaxSelectors)
  /\ \E paging \in {"none", "bare"}, cards \in SeqsOf(CardKinds, 0, 1) :
       PipeAt("remove_selectors", FirstPage(paging, <<>>, cards, FALSE), <<>>)

NextSelectors == RemoveSelectors

SpecSelectors == InitSelectors /\ [][NextSelectors]_vars


(***************************************************************************)
(* _collapse_excessive_brs alone, on line breaks with content between them *)
(***************************************************************************)

BrItems == {"br", "text", "blank", "span"}

MaxBrItems == 4

BrItem(nid, kind) ==
  CASE kind = "br" -> Elem(nid, "br", NoAttrs, <<>>)
    [] kind = "text" -> TextNode(nid, <<"words">>)
    [] kind = "blank" -> TextNode(nid, <<WS>>)
    [] OTHER -> Elem(nid, "span", NoAttrs, <<>>)

\* a paragraph holding the items
BrPage(kinds) ==
  Soup(<<Elem(200, "p", NoAttrs, [i \in 1..Len(kinds) |-> BrItem(200 + i, kinds[i])])>>)

InitBrs ==
  /\ RunIdle
  /\ RenderIdle(TRUE)
  /\ allow_hosts = {}
  /\ remove_selectors_list = <<>>
  /\ \E kinds \in SeqsOf(BrItems, 1, MaxBrItems) :
       PipeAt("collapse_excessive_brs", BrPage(kinds), <<>>)

NextBrs == CollapseExcessiveBrs

SpecBrs == InitBrs /\ [][NextBrs]_vars


(***************************************************************************)
(* The media stages of process_article_html, from _unwrap_anchored_media   *)
(* on, on documents that hold one piece of media                           *)
(***************************************************************************)

MediaQueries == {<<>>, <<"?v=1">>}

\* URLs with a media extension
MediaUrls ==
  {<<scheme, "//", "cdn.ok.com", "/i", ext>> \o q :
     scheme \in {"http:", "https:"}, ext \in ImageExts \cup VideoExts,
     q \in MediaQueries}

MediaShapes ==
  {"img_src", "img_data_src", "a_href", "a_img", "a_text", "p_img",
   "p_words_img", "wp_video", "video_source", "video_js"}

\* an element that carries the URL, alone in the document
MediaDoc(shape, url) ==
  Soup(<<
    CASE shape = "img_src" -> Elem(201, "img", [src |-> url], <<>>)
      [] shape = "img_data_src" -> Elem(201, "img", WithAttr(NoAttrs, "data-src", url), <<>>)
      [] shape = "a_href" ->
           Elem(201, "a", [href |-> url], <<TextNode(202, <<"words">>)>>)
      [] shape = "a_img" ->
           Elem(201, "a", [href |-> <<"/p2">>],
                <<Elem(202, "img", [src |-> url], <<>>)>>)
      [] shape = "a_text" ->
           Elem(201, "a", [href |-> <<"/p2">>], <<TextNode(202, url)>>)
      [] shape = "p_img" ->
           Elem(201, "p", NoAttrs, <<Elem(202, "img", WithAttr(NoAttrs, "data-src", url), <<>>)>>)
      [] shape = "p_words_img" ->
           Elem(201, "p", NoAttrs,
                <<TextNode(203, <<"words">>), Elem(202, "img", [src |-> url], <<>>)>>)
      [] shape = "wp_video" ->
           Elem(201, "div", [class |-> <<"wp-video">>],
                <<Elem(202, "video", NoAttrs,
                       <<Elem(203, "source", [src |-> url], <<>>)>>)>>)
      [] shape = "video_source" ->
           Elem(201, "video", NoAttrs, <<Elem(202, "source", [src |-> url], <<>>)>>)
      [] OTHER ->
           Elem(201, "video-js", [poster |-> <<"/p1">>],
                <<Elem(202, "source",
                       [type |-> <<"video/mp4">>, src |-> url], <<>>)>>)
  >>)

ImgurSrcs ==
  {<<"https:", "//", "imgur.com", "/QrSt555">>,
   <<"https:", "//", "imgur.com", "/a", "/QrSt555">>}

ImgurIds == {None, <<"post-XyZ9876">>, <<"img-abc">>}

ImgurDataIds == {None, <<"imgur-AbCd123">>}

ImgurClasses == {None, <<"imgur-embed-pub">>}

\* the attributes that are given
Given(pairs) ==
  [a \in {p[1] : p \in {q \in pairs : q[2] # None}} |->
     (CHOOSE p \in pairs : p[1] = a)[2]]

ImgurWrappers == {"none", "p", "a"}

Wrapped(wrapper, el) ==
  CASE wrapper = "p" -> Elem(210, "p", NoAttrs, <<el>>)
    [] wrapper = "a" -> Elem(210, "a", [href |-> <<"/p2">>], <<el>>)
    [] OTHER -> el

\* an imgur iframe, alone or in a paragraph or a link
ImgurFrameDoc(wrapper, src, id, data_id, class) ==
  Soup(<<Wrapped(wrapper,
           Elem(211, "iframe",
                Given({<<"src", src>>, <<"id", id>>, <<"data-id", data_id>>,
                       <<"class", class>>}),
                <<>>))>>)

\* an imgur quote block
ImgurQuoteDoc(wrapper, data_id) ==
  Soup(<<Wrapped(wrapper,
           Elem(211, "blockquote",
                WithAttr([class |-> <<"imgur-embed-pub">>], "data-id", data_id),
                <<TextNode(212, <<"words">>)>>))>>)

MediaDocs ==
  {MediaDoc(shape, url) : shape \in MediaShapes, url \in MediaUrls}
    \cup {ImgurFrameDoc(w, src, id, data_id, class) :
            w \in ImgurWrappers, src \in ImgurSrcs, id \in ImgurIds,
            data_id \in ImgurDataIds, class \in ImgurClasses}
    \cup {ImgurQuoteDoc(w, data_id) :
            w \in ImgurWrappers, data_id \in {<<"QrSt555">>, <<WS>>}}

InitMedia ==
  /\ RunIdle
  /\ RenderIdle(TRUE)
  /\ allow_hosts \in {{}, {"imgur.com"}}
  /\ remove_selectors_list = <<>>
  /\ \E doc \in MediaDocs : PipeAt("unwrap_anchored_media", doc, <<>>)

NextMedia ==
  \/ UnwrapAnchoredMedia
  \/ ConvertVideoJs
  \/ UnwrapImgur
  \/ NormalizeIframes
  \/ NormalizeImages
  \/ CleanupEmptyTags
  \/ CollapseExcessiveBrs

SpecMedia == InitMedia /\ [][NextMedia]_vars


(***************************************************************************)
(* _absolutize_paths alone, on a link around an image                      *)
(***************************************************************************)

\* src and href values: relative references, absolute URLs, javascript: and
\* fragment targets, bare and with white space around them
PathValues ==
  {<<"p2">>, <<"/p2">>, <<"p2", "#top">>, <<"?p=2">>, <<>>,
   <<"//", "cdn.ok.com", "/w.js">>, <<WS, "/w.js", WS>>,
   <<"https:", "//", "cdn.ok.com", "/w.js">>, <<"http:", "//", "cdn.ok.com", "/w.js">>,
   <<WS, "https:", "//", "cdn.ok.com", "/w.js", WS>>,
   <<"javascript:", "void(0)">>, <<WS, "javascript:", "void(0)">>,
   <<"#top">>, <<WS, "#top">>,
   <<"//", "[bad", "/p2">>, <<"data:", "image/png;base64">>}

PathDoc(href_val, src_val) ==
  Soup(<<Elem(201, "a", [href |-> href_val],
              <<Elem(202, "img", [src |-> src_val], <<>>),
                TextNode(203, <<"words">>)>>)>>)

InitPaths ==
  /\ RunIdle
  /\ RenderIdle(TRUE)
  /\ allow_hosts = {}
  /\ remove_selectors_list = <<>>
  /\ \E href_val \in PathValues, src_val \in PathValues :
       PipeAt("absolutize_paths", PathDoc(href_val, src_val), <<>>)

NextPaths == Absolutize

SpecPaths == InitPaths /\ [][NextPaths]_vars


(***************************************************************************)
(* One image whose lazy-load attributes and src are given or not           *)
(***************************************************************************)

\* the values of an attribute of the image: absent, two media URLs (one of
\* them inside white space), a URL of no media, a data: URI with a media
\* extension at its end, and one without
LocatorValues ==
  {None,
   <<"https:", "//", "cdn.ok.com", "/i", ".jpg">>,
   <<WS, "https:", "//", "cdn.ok.com", "/v", ".mp4", WS>>,
   <<"https:", "//", "cdn.ok.com", "/p2">>,
   <<"data:", "image/png;base64", ".png">>,
   <<"data:", "image/png;base64">>}

LocatorDoc(data_src, data_lazy_src, data_original, src) ==
  Soup(<<Elem(201, "img",
              Given({<<"data-src", data_src>>, <<"data-lazy-src", data_lazy_src>>,
                     <<"data-original", data_original>>, <<"src", src>>}),
              <<>>)>>)

InitLocator ==
  /\ RunIdle
  /\ RenderIdle(TRUE)
  /\ allow_hosts = {}
  /\ remove_selectors_list = <<>>
  /\ \E data_src \in LocatorValues, data_lazy_src \in LocatorValues,
        data_original \in LocatorValues, src \in LocatorValues :
       PipeAt("normalize_images",
              LocatorDoc(data_src, data_lazy_src, data_original, src), <<>>)

NextLocator == NormalizeImages

SpecLocator == InitLocator /\ [][NextLocator]_vars


(***************************************************************************)
(* Properties                                                              *)
(***************************************************************************)

Range(f) == {f[i] : i \in DOMAIN f}

created(s) == task[s].pc # "not_created"

after_gather ==
  run_pc \in {"log_scraping_results", "maintain_article_limit", "finally", "finished"}
    /\ sites_to_scrape # <<>>

\* C1: when some site tasks raise, the others still run to their end and
\* hand their articles to insert_many; run() goes past gather only when
\* every task has ended; and the summary counts the tasks that returned as
\* successes and the others as failures (one and one for one failing and one
\* succeeding site).
C1_FailureContained ==
  /\ after_gather =>
       \A s \in SiteIds :
         created(s) =>
           /\ finished(s)
           /\ task[s].pc = "done" => task[s].handed = task[s].articles
  /\ summary # <<>> =>
       /\ summary[1].success =
            Cardinality({s \in SiteIds : task[s].pc = "done"})
       /\ summary[1].failure =
            Cardinality({s \in SiteIds : task[s].pc = "failed"})

C1_OneFailsOneSucceeds ==
  /\ run_pc = "finished"
  /\ Len(sites_to_scrape) = 2
  /\ task[1].pc = "failed"
  /\ task[2].pc = "done"
  /\ task[2].articles > 0
  /\ rows(2) \subseteq articles_table
  /\ Len(summary) = 1
  /\ summary[1].success = 1
  /\ summary[1].failure = 1

ScriptsOf(doc) == find_all(doc, LAMBDA t : t.tag = "script")

Present(doc, nid) == \E i \in 1..Len(descendants(doc)) : descendants(doc)[i].nid = nid

NoSource(sc) == Get(sc, "src") = None \/ strip(Get(sc, "src")) = <<>>

\* the source of the script parses and has a hostname
HasHost(sc) ==
  /\ ~NoSource(sc)
  /\ ~urlparseRaises(strip(Get(sc, "src")))
  /\ hostname(strip(Get(sc, "src"))) # None

HostOf(sc) == hostname(strip(Get(sc, "src")))[1]

scripts_were_removed == pc = "remove_selectors"

\* C2: after _remove_scripts, every script without a source (no src, or a
\* blank one) is gone, every script whose hostname is not in the allowed
\* hosts is gone, and every script whose hostname is in them is still there.
C2_ScriptGate ==
  scripts_were_removed =>
    \A i \in 1..Len(ScriptsOf(before)) :
      LET sc == ScriptsOf(before)[i]
      IN /\ NoSource(sc) => ~Present(soup, sc.nid)
         /\ (HasHost(sc) /\ HostOf(sc) \notin allow_hosts) => ~Present(soup, sc.nid)
         /\ (HasHost(sc) /\ HostOf(sc) \in allow_hosts) => Present(soup, sc.nid)

C2_RemovedAndKept ==
  /\ scripts_were_removed
  /\ \E i, j \in 1..Len(ScriptsOf(before)) :
       LET a == ScriptsOf(before)[i]
           b == ScriptsOf(before)[j]
       IN /\ NoSource(a) /\ ~Present(soup, a.nid)
          /\ HasHost(b) /\ HostOf(b) \in allow_hosts /\ Present(soup, b.nid)

\* C3: after _remove_scripts, every script whose source does not parse, or
\* parses without a hostname, is gone.
C3_FailsClosed ==
  scripts_were_removed =>
    \A i \in 1..Len(ScriptsOf(before)) :
      LET sc == ScriptsOf(before)[i]
      IN (~NoSource(sc) /\ ~HasHost(sc)) => ~Present(soup, sc.nid)

C3_MalformedRemoved ==
  /\ scripts_were_removed
  /\ \E i, j \in 1..Len(ScriptsOf(before)) :
       LET a == ScriptsOf(before)[i]
           b == ScriptsOf(before)[j]
       IN /\ ~NoSource(a) /\ urlparseRaises(strip(Get(a, "src")))
          /\ ~Present(soup, a.nid)
          /\ ~NoSource(b) /\ ~urlparseRaises(strip(Get(b, "src")))
          /\ hostname(strip(Get(b, "src"))) = None /\ ~Present(soup, b.nid)

\* the place of an event of the trace in the order the specification gives
Rank(e) ==
  CASE e = "absolutize_paths" -> 1
    [] e \in {"check_paging_contents", "process_paging", "fetch"} -> 2
    [] e = "remove_scripts" -> 3
    [] e = "remove_selectors" -> 4
    [] e \in {"convert_twitter_cards", "render"} -> 5
    [] e \in {"unwrap_anchored_media", "convert_video_js", "unwrap_imgur",
              "normalize_iframes"} -> 6
    [] e = "normalize_images" -> 7
    [] e = "cleanup_empty_tags" -> 8
    [] OTHER -> 9

Once(e) == Cardinality({i \in 1..Len(trace) : trace[i] = e}) <= 1

\* C4: process_article_html runs absolutizing, then pagination detection and
\* stitching, then script removal, then selector pruning, then card
\* rendering, then unwrapping, image normalization, empty-paragraph removal
\* and line-break collapsing, each once and none before the one before it
\* has ended; every fetch of the stitching comes before any pruning; a run
\* that returns has run them all.
C4_StageOrder ==
  /\ \A i, j \in 1..Len(trace) : i < j => Rank(trace[i]) <= Rank(trace[j])
  /\ \A i \in 1..Len(Stages) : Once(Stages[i])
  /\ \A i \in 1..Len(trace) :
       trace[i] \in {"fetch", "process_paging"} =>
         \A j \in 1..i : trace[j] \notin {"remove_scripts", "remove_selectors"}
  /\ pc = "process_paging" => trace[Len(trace)] \in {"process_paging", "fetch"}
  /\ pc = "done" =>
       {"absolutize_paths", "check_paging_contents", "remove_scripts",
        "remove_selectors", "convert_twitter_cards", "unwrap_anchored_media",
        "normalize_images", "cleanup_empty_tags", "collapse_excessive_brs"}
         \subseteq Range(trace)

C4_StitchedRenderedDone ==
  /\ pc = "done"
  /\ "fetch" \in Range(trace)
  /\ "render" \in Range(trace)
  /\ remove_selectors_list # <<>>

\* C5: when the browser does not start, no site task is created, no feed or
\* page is fetched, and the retention policy is not applied.
C5_StartFailureAborts ==
  (run_pc # "start" /\ ~browser) =>
    /\ \A s \in SiteIds : ~created(s)
    /\ sites_to_scrape = <<>>
    /\ fetches = {}
    /\ maintained = 0

C5_AbortedAndStopped ==
  /\ run_pc = "finished_failed"
  /\ ~browser
  /\ stopped = 1

ContentToks == {ContentTok(k) : k \in 1..6}

\* the content tokens in the first page's container, in document order
ContentSeq(doc) ==
  IF article_body(doc) = <<>> THEN <<>>
  ELSE SelectSeq(get_text(article_body(doc)[1]), LAMBDA t : t \in ContentToks)

\* the content of pages 1..n: that of the first page's container and of the
\* container of each follow-up page that has one
PagesContent(n) ==
  SelectSeq([k \in 1..n |-> ContentTok(k)],
            LAMBDA t : \E k \in 1..n :
              t = ContentTok(k) /\ (k = 1 \/ HasContainer(web[k - 1])))

stitching_ended == pc = "remove_scripts" /\ paging_exit # "-"

\* every fetch succeeded and the last page has no next link to follow
chain_ended == paging_exit \in {"no_link", "no_href"}

\* C6: the stitching of a chain of pages ends, and when every fetch
\* succeeded and the last page has no next link, the first page's container
\* holds the content of every page once, in page order.
C6_ChainStitched ==
  (pc = "process_paging") ~>
    \/ pc = "raised"
    \/ /\ stitching_ended
       /\ chain_ended => ContentSeq(soup) = PagesContent(Len(fetched) + 1)

C6_ThreePages ==
  /\ stitching_ended
  /\ paging_exit = "no_link"
  /\ Len(fetched) = 2
  /\ ContentSeq(soup) = <<"c1", "c2", "c3">>

\* C7: when the stitching has ended, by whatever exit, the document holds
\* neither a pager container nor a next-page anchor.
C7_NoPaginationMarkers ==
  stitching_ended =>
    /\ find_all(soup, IsPager) = <<>>
    /\ pagingNav(soup) = <<>>

\* C8: when a fetch of the stitching fails, the pipeline does not raise
\* there but goes on to its next stage, with the content of the pages
\* fetched before in the first page's container, in order.
C8_FetchFailureKeepsPages ==
  paging_exit = "fetch_failed" =>
    /\ pc = "remove_scripts" \/ "remove_scripts" \in Range(trace)
    /\ pc = "remove_scripts" => ContentSeq(soup) = PagesContent(Len(fetched))

C8_SecondFetchFails ==
  /\ stitching_ended
  /\ paging_exit = "fetch_failed"
  /\ Len(fetched) = 2
  /\ ContentSeq(soup) = <<"c1", "c2">>

cards_were_converted == pc = "unwrap_anchored_media" /\ rendered # <<>>

\* the element with this handle in a document
Node(doc, nid) == attached(doc, nid)[1]

Within(outer, nid) == \E i \in 1..Len(descendants(outer)) : descendants(outer)[i].nid = nid

\* the placeholders whose render returned markup
RenderedOk == {rendered[i].nid : i \in {j \in 1..Len(rendered) : rendered[j].ret = "html"}}

\* a placeholder that neither lies in nor holds a rendered one
Apart(nid) ==
  \A ok \in RenderedOk :
    /\ ~Within(Node(before, ok), nid)
    /\ ~Within(Node(before, nid), ok)

\* the first links of the placeholder and of the placeholders in it that
\* have a target and no text
EmptyLinks(b) ==
  {first(find_all(p, LAMBDA t : t.tag = "a"))[1].nid :
     p \in {q \in {b} \cup Range(find_all(b, IsTweet)) :
              /\ find_all(q, LAMBDA t : t.tag = "a") # <<>>
              /\ get_text(first(find_all(q, LAMBDA t : t.tag = "a"))[1]) = <<>>
              /\ Get(first(find_all(q, LAMBDA t : t.tag = "a"))[1], "href") # None}}

\* the markup of an element in which the links in nids show their target
RECURSIVE MarkupWithTargets(_, _)
MarkupWithTargets(n, nids) ==
  [tag |-> n.tag, attrs |-> n.attrs,
   kids |-> IF n.nid \in nids
              THEN <<[tag |-> "#text", attrs |-> [text |-> n.attrs.href],
                      kids |-> <<>>]>>
              ELSE [i \in 1..Len(n.kids) |-> MarkupWithTargets(n.kids[i], nids)]]

rendering(c) == rpc[c] \in {"body", "finally"}

\* C10: every open context is the context of one call of
\* render_twitter_card that has not returned, no two calls share a context,
\* and a call that has returned, by whatever exit, has left none open.
C10_ContextsClosed ==
  /\ \A k \in contexts : \E c \in Callers : rendering(c) /\ rctx[c] = k
  /\ \A c \in Callers : rendering(c) => rctx[c] \in contexts
  /\ \A c, d \in Callers : (rendering(c) /\ rendering(d) /\ c # d) => rctx[c] # rctx[d]
  /\ run_pc \in {"finished", "finished_failed"} => contexts = {}

C10_ClosedAfterException ==
  \E c, d \in SiteIds :
    /\ c # d
    /\ rpc[c] = "return"
    /\ rexit[c] = "exception"
    /\ rpc[d] = "body"
    /\ contexts = {rctx[d]}

selectors_were_applied == pc = "convert_twitter_cards"

\* C11: when the removal of the matches of one selector failed and was
\* logged, no element that a later selector of the list matches is left in
\* the document.
C11_LaterSelectorsApplied ==
  (selectors_were_applied /\ warnings # <<>>) =>
    \A i \in 1..Len(remove_selectors_list) :
      (\E j \in 1..(i - 1) :
         \E k \in 1..Len(select(before, remove_selectors_list[j])) :
           select(before, remove_selectors_list[j])[k].nid = warnings[1])
        => \A k \in 1..Len(select(soup, remove_selectors_list[i])) :
             select(soup, remove_selectors_list[i])[k].nid = warnings[1]


brs_were_collapsed == pc = "done" /\ trace = <<"collapse_excessive_brs">>

IsBr(n) == n.tag = "br"

\* whether a node ends a run of line breaks: an element that is no line
\* break, or text that is not blank
EndsRun(n) == IF IsTag(n) THEN ~IsBr(n) ELSE strip(n.attrs.text) # <<>>

\* the position of the line break at i in its run, among siblings ks
RECURSIVE PlaceInRun(_, _)
PlaceInRun(ks, i) ==
  IF i = 0 \/ EndsRun(ks[i]) THEN 0
  ELSE PlaceInRun(ks, i - 1) + (IF IsBr(ks[i]) THEN 1 ELSE 0)

\* the siblings with every run of line breaks cut to its first two
Capped(ks) ==
  SelectSeq(ks, LAMBDA n :
    ~IsBr(n) \/ \E i \in 1..Len(ks) : ks[i].nid = n.nid /\ PlaceInRun(ks, i) <= max_consecutive)

\* C12: every run of N consecutive line breaks is left with min(N, 2) of
\* them, and line breaks with an element or non-blank text between them are
\* in different runs, so that a run of two or fewer loses none.
C12_RunsCapped ==
  brs_were_collapsed => soup.kids[1].kids = Capped(before.kids[1].kids)


\* the four media stages in the order process_article_html calls them
media_stages(doc) ==
  _normalize_images(_unwrap_imgur(_convert_video_js(_unwrap_anchored_media(doc).soup)))

media_were_normalized == pc = "cleanup_empty_tags"

\* C13: the media stages leave their own output as it is.
C13_MediaIdempotent ==
  media_were_normalized => Markup(media_stages(soup)) = Markup(soup)


\* the URL ends in a video extension, in any case, before an optional query
ends_in_video(url) ==
  \E i \in 1..Len(url) :
    /\ LowerExt(url[i]) \in {".mp4", ".webm", ".mov", ".m4v"}
    /\ i = Len(url) \/ (i = Len(url) - 1 /\ url[Len(url)] \in QueryToks)

ends_in_image(url) ==
  \E i \in 1..Len(url) :
    /\ LowerExt(url[i]) \in {".jpg", ".jpeg", ".png", ".gif", ".webp"}
    /\ i = Len(url) \/ (i = Len(url) - 1 /\ url[Len(url)] \in QueryToks)

\* the canonical tag for a URL: a <video> or an <img> with the marker
canonical(url) ==
  IF ends_in_video(url) THEN Markup(new_video(0, url)) ELSE Markup(new_img(0, url))

\* image normalization: every unmarked image with a media URL is
\* replaced by the canonical <video> when the URL ends in a video extension
\* and by the canonical <img> when it ends in an image extension.
images_classified ==
  (pc = "cleanup_empty_tags" /\ img_not_formatted(before.kids[1])
     /\ _find_valid_media_url(before.kids[1]) # <<>>) =>
    Markup(soup.kids[1]) = canonical(_find_valid_media_url(before.kids[1]))

\* anchored media: every link, paragraph or video wrapper that resolves
\* to a media URL is replaced by the canonical <video> when the URL ends in
\* a video extension and by the canonical <img> when it ends in an image
\* extension.
anchored_classified ==
  (pc = "convert_video_js" /\ unwrap_selected(before.kids[1])
     /\ unwrap_url(before.kids[1]) # <<>>) =>
    Markup(soup.kids[1]) = canonical(unwrap_url(before.kids[1]))

\* C14: in both places that classify, a media URL that ends in .mp4, .webm,
\* .mov or .m4v, in any case and with or without a query string, gives the
\* canonical <video>, and one that ends in an image extension the canonical
\* <img>.
C14_MediaClassified == images_classified /\ anchored_classified


\* the canonical media tags of a document: the <img> and <video> that carry
\* the marker
canonical_media(doc) ==
  find_all(doc, LAMBDA t : t.tag \in {"img", "video"} /\ Get(t, "class") = Formatted)

\* C15: in the output of the pipeline no canonical media tag has a plain
\* http:// source; in particular an <img> with only a data-src that is a
\* plain-HTTP media URL does not come out with that URL as its source.
C15_HttpMediaProxied ==
  pc = "done" =>
    \A i \in 1..Len(canonical_media(soup)) :
      Head(Get(canonical_media(soup)[i], "src")) # "http:"


paths_were_absolutized == pc = "check_paging_contents" /\ trace = <<"absolutize_paths">>

\* the src and href values of a document, by element and attribute
PathAttrs(doc) ==
  {<<descendants(doc)[i].nid, a>> :
     i \in {j \in 1..Len(descendants(doc)) : IsTag(descendants(doc)[j])},
     a \in {"src", "href"}}

ValueAt(doc, at) == Get(Node(doc, at[1]), at[2])

is_absolute_http(v) == Len(v) >= 2 /\ v[1] \in {"http:", "https:"} /\ v[2] = "//"

is_script_or_fragment(v) == v # <<>> /\ (v[1] = "javascript:" \/ v[1] \in FragToks)

is_relative(v) == v = <<>> \/ v[1] \notin Schemes \cup FragToks

\* C16: a relative value becomes the join of the base URL with
\* it, and a value that is an absolute http(s) URL, a javascript: target or
\* a # target stays as it was, white space around a value not counting for
\* what it is.
C16_PathsResolved ==
  paths_were_absolutized =>
    \A at \in PathAttrs(before) :
      LET v == ValueAt(before, at)
      IN v # None =>
           /\ (is_absolute_http(strip(v)) \/ is_script_or_fragment(strip(v)))
                => ValueAt(soup, at) = v
           /\ (is_relative(strip(v)) /\ ~urljoinRaises(page_url, strip(v)))
                => ValueAt(soup, at) = urljoin(page_url, strip(v))


imgur_was_unwrapped == pc = "normalize_iframes"

\* the imgur iframes of a document
ImgurFrames(doc) ==
  find_all(doc, LAMBDA t : t.tag = "iframe" /\ Get(t, "src") \in ImgurSrcs)

\* the ID each attribute of the iframes of the documents yields, empty when
\* it yields none: the path segment after imgur.com/ when it has five or
\* more letters and digits; the last dash-separated part of id and of data-id
\* when it has; the first part of a class name that has
IdFromSrc(t) ==
  IF Get(t, "src") = <<"https:", "//", "imgur.com", "/QrSt555">>
    THEN <<"QrSt555">> ELSE <<>>

IdFromId(t) == IF Get(t, "id") = <<"post-XyZ9876">> THEN <<"XyZ9876">> ELSE <<>>

IdFromDataId(t) ==
  IF Get(t, "data-id") = <<"imgur-AbCd123">> THEN <<"AbCd123">> ELSE <<>>

IdFromClass(t) ==
  IF Get(t, "class") = <<"imgur-embed-pub">> THEN <<"imgur">> ELSE <<>>

\* the first of them that yields one, in the order src, id, data-id, class
IdInOrder(t) ==
  IF IdFromSrc(t) # <<>> THEN IdFromSrc(t)
  ELSE IF IdFromId(t) # <<>> THEN IdFromId(t)
  ELSE IF IdFromDataId(t) # <<>> THEN IdFromDataId(t)
  ELSE IdFromClass(t)

ImgurImages(doc) ==
  find_all(doc, LAMBDA t : t.tag = "img" /\ Get(t, "alt") # None)

\* C17: the ID of an imgur iframe is the one its src yields when it matches,
\* whatever id, data-id and class say; else the one of id; else the one of
\* data-id; else the one of the class names; the image that replaces the
\* iframe points at that ID, and an iframe that yields none stays.
C17_ImgurIdOrder ==
  (imgur_was_unwrapped /\ ImgurFrames(before) # <<>>) =>
    LET id == IdInOrder(ImgurFrames(before)[1])
    IN IF id = <<>>
         THEN ImgurFrames(soup) = ImgurFrames(before) /\ ImgurImages(soup) = <<>>
         ELSE /\ ImgurFrames(soup) = <<>>
              /\ Len(ImgurImages(soup)) = 1
              /\ Get(ImgurImages(soup)[1], "src")
                   = <<"https:", "//", "i.imgur.com", "/">> \o id \o <<".jpeg">>

C17_SrcWinsOverId ==
  /\ imgur_was_unwrapped
  /\ ImgurFrames(before) # <<>>
  /\ IdFromSrc(ImgurFrames(before)[1]) = <<"QrSt555">>
  /\ IdFromId(ImgurFrames(before)[1]) = <<"XyZ9876">>
  /\ IdFromDataId(ImgurFrames(before)[1]) = <<"AbCd123">>
  /\ ImgurImages(soup) # <<>>
  /\ Get(ImgurImages(soup)[1], "src")
       = <<"https:", "//", "i.imgur.com", "/", "QrSt555", ".jpeg">>



tasks_all_finished == \A s \in SiteIds : created(s) => finished(s)

\* C18: in a run that scheduled site tasks maintain_article_limit is called
\* exactly once, after every site task returned or raised, and never while a
\* task is still running
C18_RetentionOnceAfterTasks ==
  /\ maintained <= 1
  /\ maintained = 1 => tasks_all_finished
  /\ run_pc = "maintain_article_limit" => tasks_all_finished
  /\ (run_pc = "finished" /\ \E s \in SiteIds : created(s)) => maintained = 1
  /\ (\E s \in SiteIds : created(s) /\ ~finished(s)) => maintained = 0

\* a run that ended with one task failed and one returned, and one call of
\* the retention policy
C18_RetentionAfterFailedTask ==
  /\ run_pc = "finished"
  /\ maintained = 1
  /\ task[1].pc = "failed"
  /\ task[2].pc = "done"


\* C19 (as written): no work is done for a feed entry whose URL the articles
\* table holds: its page is not fetched, process_article_html is not called
\* for it, and it is not in the batch given to insert_many
C19_KnownUrlsFilteredOut == \A s \in SiteIds : task[s].known = "-"


\* insert_many met a duplicate key: it returned 0, wrote nothing new, and
\* scrape_site_and_update_timestamp goes on as after any other return
conflict_is_no_error(s) ==
  /\ task'[s].count = 0
  /\ task'[s].pc = "update_last_access"
  /\ task'[s].ret = task[s].ret
  /\ articles_table' = articles_table

\* another APIError leaves insert_many and the task: the task has failed
error_is_propagated(s) ==
  /\ task'[s].pc = "failed"
  /\ task'[s].ret = Raised(s)

\* a task that met a duplicate key fails only in update_last_access, and
\* returns its site id otherwise
conflict_ends_as_success(s) ==
  /\ (task[s].pc # "failed" /\ task'[s].pc = "failed")
       => task[s].pc = "update_last_access"
  /\ (task[s].pc # "done" /\ task'[s].pc = "done")
       => task'[s].ret = Returned(s)

insert_many_step(s) ==
  /\ (task[s].pc = "insert_many" /\ task'[s].insert = "23505")
       => conflict_is_no_error(s)
  /\ (task[s].pc = "insert_many" /\ task'[s].insert = "error")
       => error_is_propagated(s)
  /\ task[s].insert = "23505" => conflict_ends_as_success(s)

\* what run() counts for a task after gather
counted_as_failure(s) ==
  \E i \in 1..Len(results) : sites_to_scrape[i] = s /\ results[i].kind = "exc"

\* C20: a duplicate key on the batch insert makes insert_many return 0
\* without raising and the task goes on to return its site id; every other
\* APIError of the insert is raised and ends the task as a failure
C20_ConflictIsNoError ==
  /\ [][\A s \in SiteIds : insert_many_step(s)]_vars
  /\ [](\A s \in SiteIds :
          /\ task[s].insert = "23505" => task[s].count = 0
          /\ task[s].insert = "error" =>
               /\ task[s].pc = "failed"
               /\ after_gather => counted_as_failure(s))

\* a run in which one task met a duplicate key and returned its site id and
\* another met a different error and failed
C20_ConflictAndErrorSeen ==
  /\ run_pc = "finished"
  /\ task[1].insert = "23505"
  /\ task[1].pc = "done"
  /\ task[1].ret = Returned(1)
  /\ summary[1].success = 1
  /\ task[2].insert = "error"
  /\ task[2].pc = "failed"


\* a step of the loop over the entries after which the last page
\* fetch_html_text returned is ""
initial_fetch_failed(s) ==
  /\ task[s].pc = "process_feed_entries"
  /\ task[s].todo > 0
  /\ task'[s] # task[s]
  /\ task'[s].mobile_html = ""

\* the entry is dropped: no call of process_article_html, no article, no
\* exception, and the loop is at the next entry
entry_skipped(s) ==
  /\ task'[s].pc = "process_feed_entries"
  /\ task'[s].articles = task[s].articles
  /\ task'[s].ret = task[s].ret
  /\ task'[s].todo = task[s].todo - 1

\* C21: when the first fetch of an entry's page fails the entry is skipped:
\* process_article_html is not called for it, no article is added, nothing
\* is raised out of the task, and the loop goes on with the entries left
C21_FailedFetchSkipsEntry ==
  /\ [][\A s \in SiteIds : initial_fetch_failed(s) => entry_skipped(s)]_vars
  /\ [](\A s \in SiteIds :
          task[s].mobile_html = "" =>
            /\ task[s].pc = "process_feed_entries"
            /\ task[s].ret.kind = "pending"
            /\ ENABLED TaskFeedEntry(s))

\* the page of the first of two entries could not be fetched and the loop
\* is at the second entry, with no article and nothing raised
C21_LoopAtNextEntry ==
  /\ task[1].mobile_html = ""
  /\ task[1].pc = "process_feed_entries"
  /\ task[1].todo = 1
  /\ task[1].articles = 0
  /\ task[1].ret.kind = "pending"


contains_iframe(elem) == find_all(elem, LAMBDA t : t.tag = "iframe") # <<>>

contains_visible_text(elem) == get_text(elem) # <<>>

\* C22 (as written): in _unwrap_anchored_media every selected link,
\* paragraph or video wrapper that contains an iframe or visible text is
\* left as it was, and is not replaced by a canonical media tag
C22_AmbiguousSkipped ==
  (pc = "convert_video_js" /\ unwrap_selected(before.kids[1])
     /\ (contains_iframe(before.kids[1]) \/ contains_visible_text(before.kids[1]))) =>
    Markup(soup.kids[1]) = Markup(before.kids[1])


\* the URL of the page on which the next link of the coming fetch was found
found_on == IF fetched = <<>> THEN page_url ELSE fetched[Len(fetched)]

\* C23: each next link is resolved against the URL of the page it was found
\* on, and the URL it gives is the base for the next link of the page that
\* was fetched from it
C23_ResolvedAgainstCurrent ==
  /\ [][fetched' # fetched =>
          fetched' = Append(fetched, urljoin(found_on, href))]_vars
  /\ [](pc = "process_paging" => current_url = found_on)

\* the second page lies one directory below the first, and its relative
\* next link was resolved in that directory, not in that of the article
C23_SecondLinkBelow ==
  /\ Len(fetched) = 2
  /\ fetched[1] = DeepUrl(2)
  /\ fetched[2] = DeepUrl(3)
  /\ fetched[2] # urljoin(page_url, <<PageRel(3)>>)
  /\ pc = "process_paging"
  /\ current_url = DeepUrl(3)


\* _check_paging_contents has just been asked, about the document in before
paging_was_checked ==
  trace # <<>> /\ trace[Len(trace)] \in {"check_paging_contents", "process_paging"}

stitching_entered == trace # <<>> /\ trace[Len(trace)] = "process_paging"

\* C24 (as written): _process_paging is entered exactly when the document
\* has at least one content container, of either kind, and at least one
\* next link
C24_EnteredWithOneContainer ==
  paging_was_checked =>
    (stitching_entered <=>
       (article_body(before) # <<>> /\ pagingNav(before) # <<>>))


images_were_normalized == pc = "cleanup_empty_tags" /\ trace = <<"normalize_images">>

is_data_uri(s) == s # <<>> /\ Head(s) = "data:"

\* the attributes in the order of the locator
LocatorOrder == LAZY_ATTRS \o <<"src">>

\* an attribute whose trimmed value is a media URL and no data: URI
qualifies(tag, a) ==
  /\ Get(tag, a) # None
  /\ MEDIA_RE(strip(Get(tag, a)))
  /\ ~is_data_uri(strip(Get(tag, a)))

\* the trimmed value of the first attribute that qualifies, or nothing
first_qualifying(tag) ==
  LET as == SelectSeq(LocatorOrder, LAMBDA a : qualifies(tag, a))
  IN IF as = <<>> THEN <<>> ELSE strip(Get(tag, as[1]))

\* C25 (as written): the locator gives the trimmed value of the first of
\* data-src, data-lazy-src, data-original and src that matches the media
\* pattern, never a data: URI, and nothing when none qualifies; an image
\* for which it gives nothing is removed by the image normalization
C25_LocatorPriority ==
  images_were_normalized =>
    /\ _find_valid_media_url(before.kids[1]) = first_qualifying(before.kids[1])
    /\ ~is_data_uri(_find_valid_media_url(before.kids[1]))
    /\ _find_valid_media_url(before.kids[1]) = <<>> => soup.kids = <<>>
    /\ _find_valid_media_url(before.kids[1]) # <<>> =>
         /\ Len(soup.kids) = 1
         /\ Get(soup.kids[1], "src") = _find_valid_media_url(before.kids[1])


\* C26 (as written): in one run of _process_paging no page URL is fetched
\* more than once, whatever the next links of the pages are, so that the
\* loop ends also when a link leads back to a page already visited
C26_NoPageFetchedTwice ==
  \A i \in 1..Len(fetched) : \A j \in 1..Len(fetched) :
    fetched[i] = fetched[j] => i = j


run_ended == run_pc \in {"finished", "finished_failed"}

\* a call of render_twitter_card begins
render_begins(c) == rpc[c] = "idle" /\ rpc'[c] # "idle"

\* C27: on every path through run() scraper_service.stop() is called once,
\* at the end and after every task that was created has returned or raised,
\* and no render_twitter_card begins or is under way once it was called
C27_StoppedOnceAtEnd ==
  /\ [](/\ stopped <= 1
        /\ run_ended <=> stopped = 1
        /\ stopped = 1 =>
             /\ tasks_all_finished
             /\ \A c \in Callers : rpc[c] = "idle")
  /\ [][\A c \in Callers : render_begins(c) => stopped = 0]_vars

\* the browser could not be started: run() went through finally all the same
C27_StoppedAfterFailedStart ==
  /\ run_pc = "finished_failed"
  /\ stopped = 1
  /\ ~browser
  /\ sites_to_scrape = <<>>


counted_as_success(s) ==
  \E i \in 1..Len(results) : results[i] = Returned(s)

\* a task whose feed could not be fetched ends as one that found nothing to
\* insert: it fails only where update_last_access raises
absent_feed_is_no_failure(s) ==
  (task'[s].feed = "None" /\ task[s].pc # "failed" /\ task'[s].pc = "failed")
    => task[s].pc = "update_last_access"

\* C28: last_access of a site is written only by a task that returns its
\* site id; a task that raises leaves it as it was and is counted as a
\* failure; a task whose feed was absent after an HTTP or request error
\* returns its site id, writes last_access and is counted as a success
C28_LastAccessOnReturn ==
  /\ [](\A s \in SiteIds :
          /\ s \in last_access <=> task[s].pc = "done"
          /\ task[s].pc = "done" => task[s].ret = Returned(s)
          /\ task[s].pc = "failed" =>
               /\ task[s].ret = Raised(s)
               /\ after_gather => counted_as_failure(s)
          /\ task[s].feed = "None" =>
               /\ task[s].pc \in {"update_last_access", "done", "failed"}
               /\ (task[s].pc = "done" /\ after_gather) => counted_as_success(s))
  /\ [][\A s \in SiteIds : absent_feed_is_no_failure(s)]_vars

\* the feed of site 1 could not be fetched and its task returned; the task
\* of site 2 raised
C28_AbsentFeedCounted ==
  /\ run_pc = "finished"
  /\ task[1].feed = "None"
  /\ task[1].pc = "done"
  /\ summary[1].success = 1
  /\ summary[1].failure = 1
  /\ last_access = {1}
  /\ task[2].pc = "failed"


\* the entries of the failure details that name a site
details_of(s) == {k \in 1..Len(summary[1].details) : summary[1].details[k].site = s}

\* C29: the summary splits the sites of the run: successes and failures add
\* up to the number of sites, a site is among the successes exactly when its
\* task returned its id, and each site whose task raised has one entry in
\* the failure details, with the exception of its own task
C29_SummaryPartitions ==
  summary # <<>> =>
    /\ summary[1].success + summary[1].failure = Len(sites_to_scrape)
    /\ summary[1].success = Cardinality(summary[1].success_ids)
    /\ \A i \in 1..Len(sites_to_scrape) :
         LET s == sites_to_scrape[i]
         IN /\ s \in summary[1].success_ids <=> task[s].ret = Returned(s)
            /\ task[s].pc = "done" => details_of(s) = {}
            /\ task[s].pc = "failed" =>
                 /\ Cardinality(details_of(s)) = 1
                 /\ \A k \in details_of(s) : summary[1].details[k].exc = task[s].ret

\* the task of site 1 returned and that of site 2 raised: the details name
\* site 2 with its exception
C29_SecondSiteInDetails ==
  /\ summary # <<>>
  /\ summary[1].success_ids = {1}
  /\ summary[1].failure = 1
  /\ summary[1].details = <<[site |-> 2, exc |-> Raised(2)]>>
  /\ task[1].pc = "done"


\* C30 (as written): when the stitching has ended no src or href of the
\* document is a relative path, those of the content merged from the
\* follow-up pages included
C30_NoRelativePathLeft ==
  stitching_ended =>
    \A at \in PathAttrs(soup) :
      ValueAt(soup, at) # None => ~is_relative(strip(ValueAt(soup, at)))

=============================================================================
